---- MODULE Spec2Model ----
(***************************************************************************)
(* A model of the research orchestrator of ts-research-agent               *)
(* (src/orchestrator/Pipeline.ts) with the helpers it calls: the content   *)
(* quality scorer, the query validity check, the scraper's per-item        *)
(* fallback and the URL cache; and, each under a specification of its own,  *)
(* the retry loops of the three clients (LLMProvider.generate,             *)
(* ScraperProvider.executeScrape, SearchProvider.search), the RateLimiter  *)
(* and the Cache with its time-to-live.                                    *)
(*                                                                         *)
(* Strings are represented by the measurements the code takes of them:     *)
(* a query by its trimmed length, whether it has an alphanumeric character *)
(* and its lower-cased words; a text by its length, word, sentence and     *)
(* paragraph counts; a URL by the properties of its host name.             *)
(***************************************************************************)
EXTENDS Integers, Sequences, FiniteSets, TLC

\* ------------------------------------------------------------------ bounds
\* longest candidate list the planner answers with
MaxPlanQueries == 8
\* longest follow-up list an evaluation answers with
MaxFollowUps == 4
\* longest result list one search call answers with
MaxAnswerLen == 2
\* most search results the searches of one call find in total (after the
\* merge by URL of each round)
MaxSources == 2
\* most instances a SearchConfig lists
MaxInstances == 2
\* largest maxRetries a SearchConfig sets
MaxConfiguredRetries == 3
\* most calls made on one provider
MaxCalls == 2
\* most units passed to one RateLimiter
MaxUnits == 3
\* largest maxConcurrent a RateLimiter is built with
MaxConcurrent == 2
\* minInterval of the RateLimiter, in clock ticks
MinInterval == 2
\* cacheDuration of the Cache, in clock ticks
CacheDuration == 1
\* last tick of the clock the cache reads
MaxClock == 3

NoValue == "none"

Max(a, b) == IF a > b THEN a ELSE b
Min(a, b) == IF a < b THEN a ELSE b

\* Array.prototype.slice(0, n)
Take(s, n) == SubSeq(s, 1, Min(n, Len(s)))

Range(s) == {s[i] : i \in DOMAIN s}

\* ------------------------------------------------------- depth configuration
DEPTH_CONFIGS ==
  [shallow |-> [initialQueries |-> [min |-> 2, max |-> 3],
                resultsPerQuery |-> [min |-> 3, max |-> 5],
                maxRounds |-> 1, modelTierBoost |-> 0],
   normal  |-> [initialQueries |-> [min |-> 3, max |-> 5],
                resultsPerQuery |-> [min |-> 5, max |-> 8],
                maxRounds |-> 2, modelTierBoost |-> 0],
   deep    |-> [initialQueries |-> [min |-> 5, max |-> 7],
                resultsPerQuery |-> [min |-> 8, max |-> 12],
                maxRounds |-> 3, modelTierBoost |-> 1]]

ResearchDepth == {"shallow", "normal", "deep"}

\* ------------------------------------------------------------------ queries
\* A query is the list of its words: the lower-case words of the trimmed
\* string, which single blanks separate.  WordTable gives the length of each
\* word and whether one of its characters is alphanumeric; LongWord is a word
\* of 197 letters.
LongWord == "x{197}"

WordTable ==
  [w \in {"solar", "cell", "efficiency", "perovskite", "stability", "data", "how",
           "much", "a", "ab", "?!", LongWord} |->
     CASE w = "solar" -> [len |-> 5, alnum |-> TRUE]
       [] w = "cell" -> [len |-> 4, alnum |-> TRUE]
       [] w = "efficiency" -> [len |-> 10, alnum |-> TRUE]
       [] w = "perovskite" -> [len |-> 10, alnum |-> TRUE]
       [] w = "stability" -> [len |-> 9, alnum |-> TRUE]
       [] w = "data" -> [len |-> 4, alnum |-> TRUE]
       [] w = "how" -> [len |-> 3, alnum |-> TRUE]
       [] w = "much" -> [len |-> 4, alnum |-> TRUE]
       [] w = "a" -> [len |-> 1, alnum |-> TRUE]
       [] w = "ab" -> [len |-> 2, alnum |-> TRUE]
       [] w = "?!" -> [len |-> 2, alnum |-> FALSE]
       [] w = LongWord -> [len |-> 197, alnum |-> TRUE]]

RECURSIVE WordChars(_)
WordChars(words) ==
  IF words = <<>> THEN 0 ELSE WordTable[Head(words)].len + WordChars(Tail(words))

\* query.trim().length: the words and the blanks between them
TrimmedLength(query) == WordChars(query) + Len(query) - 1

\* /^[^a-zA-Z0-9]+$/.test(trimmed)
OnlySpecialCharacters(query) == \A i \in DOMAIN query : ~WordTable[query[i]].alnum

broadTerms == {"what", "how", "why", "when", "where", "who"}

validateQuery(query) ==
  LET words == query
      uniqueWords == Range(words)
  IN  IF TrimmedLength(query) < 3 THEN FALSE
      ELSE IF TrimmedLength(query) > 200 THEN FALSE
      ELSE IF OnlySpecialCharacters(query) THEN FALSE
      ELSE IF Len(words) > 3 /\ 10 * Cardinality(uniqueWords) < 4 * Len(words) THEN FALSE
      ELSE IF Len(words) <= 2 /\ (\E term \in broadTerms : term \in uniqueWords) THEN FALSE
      ELSE TRUE

\* -------------------------------------------------------------------- texts
\* A text is known by: len (characters), normLen (length after collapsing
\* white space and trimming), sentences, words, wordChars (sum of the word
\* lengths), special (characters outside [\w\s.,!?;:()\-'"]) and paragraphs.
PLACEHOLDER == "Content unavailable"

TextTable ==
  [x \in {"", PLACEHOLDER, "snippet: solar cells reach 26%", "page: mit solar lab",
          "page: energy blog", "page: short note", "page: survey", "page: raw dump"} |->
     CASE x = "" ->
            [len |-> 0, normLen |-> 0, sentences |-> 0, words |-> 0,
             wordChars |-> 0, special |-> 0, paragraphs |-> 0]
       [] x = PLACEHOLDER ->
            [len |-> 19, normLen |-> 19, sentences |-> 1, words |-> 2,
             wordChars |-> 18, special |-> 0, paragraphs |-> 1]
       [] x = "snippet: solar cells reach 26%" ->
            [len |-> 150, normLen |-> 150, sentences |-> 2, words |-> 24,
             wordChars |-> 126, special |-> 1, paragraphs |-> 1]
       [] x = "page: mit solar lab" ->
            [len |-> 4200, normLen |-> 4100, sentences |-> 40, words |-> 700,
             wordChars |-> 3400, special |-> 12, paragraphs |-> 9]
       [] x = "page: energy blog" ->
            [len |-> 640, normLen |-> 630, sentences |-> 30, words |-> 110,
             wordChars |-> 520, special |-> 80, paragraphs |-> 1]
       [] x = "page: short note" ->
            [len |-> 300, normLen |-> 295, sentences |-> 5, words |-> 50,
             wordChars |-> 240, special |-> 2, paragraphs |-> 1]
       [] x = "page: survey" ->
            [len |-> 20000, normLen |-> 19500, sentences |-> 150, words |-> 3300,
             wordChars |-> 16000, special |-> 100, paragraphs |-> 30]
       [] x = "page: raw dump" ->
            [len |-> 120000, normLen |-> 110000, sentences |-> 100, words |-> 9000,
             wordChars |-> 100000, special |-> 20000, paragraphs |-> 1]]

Texts == DOMAIN TextTable

\* --------------------------------------------------------------------- URLs
\* A URL is known by: valid (new URL() accepts it), academicTld (host ends
\* with .edu, .ac.uk or .gov), reputable (host contains a reputable domain),
\* labels (dot-separated parts of the host), digitRun (host has three digits
\* in a row), hostLen.
UrlTable ==
  [x \in {"https://solar.mit.edu/lab", "https://energy-blog.example/post", "/relative/path",
          "https://www.nytimes.com/solar", "https://a.b.c.d.example/x",
          "https://host12345.example/"} |->
     CASE x = "https://solar.mit.edu/lab" ->
            [valid |-> TRUE, academicTld |-> TRUE, reputable |-> TRUE,
             labels |-> 3, digitRun |-> FALSE, hostLen |-> 13]
       [] x = "https://energy-blog.example/post" ->
            [valid |-> TRUE, academicTld |-> FALSE, reputable |-> FALSE,
             labels |-> 2, digitRun |-> FALSE, hostLen |-> 19]
       [] x = "/relative/path" ->
            [valid |-> FALSE, academicTld |-> FALSE, reputable |-> FALSE,
             labels |-> 0, digitRun |-> FALSE, hostLen |-> 0]
       [] x = "https://www.nytimes.com/solar" ->
            [valid |-> TRUE, academicTld |-> FALSE, reputable |-> TRUE,
             labels |-> 3, digitRun |-> FALSE, hostLen |-> 15]
       [] x = "https://a.b.c.d.example/x" ->
            [valid |-> TRUE, academicTld |-> FALSE, reputable |-> FALSE,
             labels |-> 5, digitRun |-> FALSE, hostLen |-> 15]
       [] x = "https://host12345.example/" ->
            [valid |-> TRUE, academicTld |-> FALSE, reputable |-> FALSE,
             labels |-> 2, digitRun |-> TRUE, hostLen |-> 17]]

\* ------------------------------------------------------------ QualityScorer
scoreContentLength(content) ==
  LET length == TextTable[content].len
  IN  IF length < 200 THEN 10
      ELSE IF length < 500 THEN 30
      ELSE IF length < 1000 THEN 50
      ELSE IF length < 3000 THEN 80
      ELSE IF length < 10000 THEN 100
      ELSE IF length < 30000 THEN 90
      ELSE IF length < 100000 THEN 70
      ELSE 50

scoreDomainReputation(url) ==
  LET u == UrlTable[url]
  IN  IF ~u.valid THEN 0
      ELSE IF u.academicTld THEN 100
      ELSE IF u.reputable THEN 90
      ELSE IF u.labels > 4 THEN 30
      ELSE IF u.digitRun THEN 20
      ELSE IF u.hostLen > 50 THEN 20
      ELSE 60

scoreReadability(content) ==
  LET t == TextTable[content]
      S == Max(1, t.sentences)
      W == Max(1, t.words)
      sentencePart ==
        IF t.words >= 10 * S /\ t.words <= 30 * S THEN 25
        ELSE IF t.words < 5 * S \/ t.words > 50 * S THEN -15
        ELSE 0
      wordPart ==
        IF t.wordChars >= 4 * W /\ t.wordChars <= 7 * W THEN 25
        ELSE IF t.wordChars < 3 * W \/ t.wordChars > 10 * W THEN -15
        ELSE 0
      specialPart == IF 10 * t.special > t.normLen THEN -30 ELSE 0
      paragraphPart == IF t.paragraphs > 1 THEN 10 ELSE 0
      score == 50 + sentencePart + wordPart + specialPart + paragraphPart
  IN  IF t.normLen = 0 THEN 0 ELSE Min(100, Max(0, score))

\* The weighted sum in hundredths.  Math.round rounds halves up; the one
\* input of the score grid on which the double sum falls below its exact
\* value (90*0.35 alone = 31.499999999999996) rounds down.
scoreContent(title, url, content) ==
  LET contentLength == scoreContentLength(content)
      hasTitle == IF title # "" THEN 25 ELSE 0
      domainReputation == scoreDomainReputation(url)
      readability == scoreReadability(content)
      score100 == contentLength * 35 + hasTitle * 15 + domainReputation * 30
                  + readability * 20
      clamped == Min(10000, Max(0, score100))
  IN  IF <<contentLength, hasTitle, domainReputation, readability>> = <<90, 0, 0, 0>>
        THEN 31
        ELSE (clamped + 50) \div 100

\* ----------------------------------------------------------- search results
\* The SearchResult values the search client answers with.
SearchResults ==
  { [title |-> "MIT Solar Lab", url |-> "https://solar.mit.edu/lab",
     snippet |-> "snippet: solar cells reach 26%"],
    [title |-> "", url |-> "https://energy-blog.example/post", snippet |-> ""] }

Urls == {r.url : r \in SearchResults}

\* what the extraction service returns for a URL when the scrape succeeds
PageOf(url) ==
  IF url = "https://solar.mit.edu/lab" THEN "page: mit solar lab" ELSE "page: energy blog"

\* the answers of one search call: result lists of at most MaxAnswerLen hits
SearchAnswers ==
  UNION { [1..n -> SearchResults] : n \in 0..MaxAnswerLen }

\* ------------------------------------------------------------ planner output
UserQuery == <<"solar", "cell", "efficiency">>

GoodQueries == <<<<"solar", "cell", "efficiency">>, <<"perovskite", "stability", "data">>>>

\* a candidate list of n queries whose positions in bad hold the query "how"
MkQueries(n, bad) ==
  [i \in 1..n |-> IF i \in bad THEN <<"how">> ELSE GoodQueries[((i - 1) % 2) + 1]]

\* the candidate lists of a parsed planning response: two invalid queries,
\* five candidates of which the second and fourth are invalid, and
\* MaxPlanQueries valid candidates
PlanResponses ==
  { <<<<"how">>, <<"?!">>>>, MkQueries(5, {2, 4}), MkQueries(MaxPlanQueries, {}) }

\* the follow-up lists of a parsed evaluation: none, one invalid query, and
\* MaxFollowUps valid ones
FollowUpResponses ==
  { <<>>, <<<<"how">>>>, MkQueries(MaxFollowUps, {}) }

\* ------------------------------------------------------------------- errors
CancelError == [name |-> "Error", message |-> "Research cancelled by user"]
LLMError == [name |-> "LLMError", message |-> "LLM generation failed after 3 attempts"]
SearchError == [name |-> "SearchError", message |-> "Search failed across all instances"]

\* ---------------------------------------------------------------- the cache
\* Cache.get on the URL partition: null (NoValue) when the cache is off or has
\* no row for the key
CacheGet(cache, enabled, key) ==
  IF ~enabled THEN NoValue ELSE cache[key]

\* Cache.set on the URL partition: INSERT OR REPLACE, ignored when off
CacheSet(cache, enabled, key, value) ==
  IF ~enabled THEN cache ELSE [cache EXCEPT ![key] = value]

\* ------------------------------------------------------- LLM call outcomes
\* generateWithCache answers from the LLM cache (never an empty string, the
\* caller tests "if (cached)") or calls LLMProvider.generate, which returns
\* content.trim() (empty for a white-space-only completion) or throws after
\* its retries.  resp: "json" parses into the expected structure, "text"
\* does not parse, "blank" is the empty string, "error" is a thrown LLMError.
GenOutcomes(enabled) ==
  { [via |-> "cache", resp |-> r] : r \in IF enabled THEN {"json", "text"} ELSE {} }
  \cup { [via |-> "llm", resp |-> r] : r \in {"json", "text", "blank", "error"} }

LlmStarted(o) == IF o.via = "llm" THEN {"llm"} ELSE {}

\* ------------------------------------------------- pure steps of the pipeline
\* (variant) the filter keeps every candidate
validQueriesUnfiltered(candidates) == candidates

\* plan.queries.filter(q => validateQuery(q.query).valid)
validQueries(candidates) == SelectSeq(candidates, LAMBDA q : validateQuery(q))

\* (variant) the valid candidates without the slice
InitialQueriesUncapped(candidates, d) == validQueries(candidates)

\* validQueries.slice(0, depthConfig.initialQueries.max)
InitialQueriesOf(candidates, d) ==
  Take(validQueries(candidates), DEPTH_CONFIGS[d].initialQueries.max)

\* the cap on the follow-up queries of a round
FollowUpCap == 3

\* (variant) slice(3): the follow-ups after the third
FollowUpsSkipped(followUps) == SubSeq(followUps, FollowUpCap + 1, Len(followUps))

\* (variant) every follow-up the evaluation proposes
FollowUpsUncapped(followUps) == followUps

\* evaluation.follow_up_queries.slice(0, 3)
FollowUpsOf(followUps) == Take(followUps, FollowUpCap)

\* the loop is left after an evaluation that reports the goal met or has no
\* follow-up query
EvaluationEndsLoop(evaluation) ==
  evaluation.goal_met \/ Len(evaluation.follow_up_queries) = 0

\* (variant) a fallback that keeps the research going
EvaluationFallbackContinue ==
  [goal_met |-> FALSE, follow_up_queries |-> <<UserQuery>>]

\* the value evaluateGaps returns when JSON.parse throws
EvaluationFallback == [goal_met |-> TRUE, follow_up_queries |-> <<>>]

\* uniqueResults of executeSearches: the Map keeps the first result of a URL,
\* in insertion order
RECURSIVE MergeByUrl(_, _)
MergeByUrl(unique, results) ==
  IF results = <<>> THEN unique
  ELSE MergeByUrl(IF \E i \in DOMAIN unique : unique[i].url = Head(results).url
                    THEN unique
                    ELSE Append(unique, Head(results)),
                  Tail(results))

\* (variant) a failed scrape leaves the content empty
scrapeManyEmptyFallback(results, failures) ==
  [i \in 1..Len(results) |->
     [title |-> results[i].title,
      url |-> results[i].url,
      content |-> IF results[i].url \in failures THEN "" ELSE PageOf(results[i].url),
      cached |-> FALSE]]

\* ScraperProvider.scrapeMany: one item per input, in input order; a URL whose
\* scrape throws (url \in failures) gets the snippet, or the placeholder
scrapeMany(results, failures) ==
  [i \in 1..Len(results) |->
     [title |-> results[i].title,
      url |-> results[i].url,
      content |-> IF results[i].url \in failures
                    THEN (IF results[i].snippet # "" THEN results[i].snippet
                          ELSE PLACEHOLDER)
                    ELSE PageOf(results[i].url),
      cached |-> FALSE]]

\* (variant) the seen-URL set is never consulted
IsDuplicateNever(seen, url) == FALSE

\* this.seenUrls.has(result.url)
IsDuplicate(seen, url) == url \in seen

\* the URLs of results[1..i-1]
UrlsBefore(results, i) == {results[j].url : j \in 1..(i - 1)}

\* "if (cached)": a row with a non-empty content
CacheHit(cache, enabled, url) ==
  CacheGet(cache, enabled, url) # NoValue /\ CacheGet(cache, enabled, url) # ""

\* results.filter((_, i) => !scrapedContent[i].cached)
UncachedOf(results, cache, enabled) ==
  SelectSeq(results, LAMBDA r : ~CacheHit(cache, enabled, r.url))

\* number of uncached results among results[1..i]
UncachedIndex(results, cache, enabled, i) ==
  Cardinality({j \in 1..i : ~CacheHit(cache, enabled, results[j].url)})

\* scrapedContent of scrapeResults before the final sort: cache hits are taken
\* from the cache, every other slot from scrapeMany's answer at its
\* uncachedIndex; each item is scored once; the duplicate flag is the one
\* computed in the first loop
ScrapedBeforeSort(results, seen, cache, enabled, fresh) ==
  [i \in 1..Len(results) |->
     LET r == results[i]
         dup == IsDuplicate(seen \cup UrlsBefore(results, i), r.url)
     IN  IF CacheHit(cache, enabled, r.url)
           THEN [title |-> r.title, url |-> r.url,
                 content |-> CacheGet(cache, enabled, r.url), cached |-> TRUE,
                 qualityScore |-> scoreContent(r.title, r.url, CacheGet(cache, enabled, r.url)),
                 duplicate |-> dup]
           ELSE LET scraped == fresh[UncachedIndex(results, cache, enabled, i)]
                IN  [title |-> scraped.title, url |-> scraped.url,
                     content |-> scraped.content, cached |-> scraped.cached,
                     qualityScore |-> scoreContent(scraped.title, scraped.url, scraped.content),
                     duplicate |-> dup]]

\* Array.prototype.sort((a, b) => b.qualityScore - a.qualityScore): stable,
\* descending
RECURSIVE InsertByQuality(_, _)
InsertByQuality(sorted, item) ==
  IF sorted = <<>> THEN <<item>>
  ELSE IF Head(sorted).qualityScore >= item.qualityScore
         THEN <<Head(sorted)>> \o InsertByQuality(Tail(sorted), item)
         ELSE <<item>> \o sorted

RECURSIVE SortByQuality(_)
SortByQuality(items) ==
  IF items = <<>> THEN <<>>
  ELSE InsertByQuality(SortByQuality(SubSeq(items, 1, Len(items) - 1)), items[Len(items)])

\* the cache after "await this.cache.set(url, content)" for every freshly
\* scraped item
RECURSIVE CacheAfterScrape(_, _, _)
CacheAfterScrape(cache, enabled, fresh) ==
  IF fresh = <<>> THEN cache
  ELSE CacheAfterScrape(CacheSet(cache, enabled, Head(fresh).url, Head(fresh).content),
                        enabled, Tail(fresh))

\* summarizeContent for one item: the title and URL tag followed by the
\* parsed summary or, when the response does not parse, by the raw response
SummaryOf(item, resp) ==
  [title |-> item.title, url |-> item.url,
   body |-> IF resp = "json" THEN "parsed" ELSE "raw"]

\* ranked_sources.filter(r => r.index < content.length).map(r => content[r.index])
\* (indexes are 0-based)
RankedBy(content, indexes) ==
  LET kept == SelectSeq(indexes, LAMBDA ix : ix < Len(content))
  IN  [k \in 1..Len(kept) |-> content[kept[k] + 1]]

\* the rankings a parsed filtering response carries for n sources: the
\* reverse order, and the first source followed by an index out of range
Rankings(n) ==
  { [k \in 1..n |-> n - k], <<0, n>> }

\* generateReport's value: the LLM response, empty when the completion was
\* white space only
LlmReport(resp) ==
  [src |-> "llm", empty |-> (resp = "blank"), sources |-> <<>>, count |-> 0]

\* createBasicSummary: the fixed text with the first ten sources listed and
\* the number of collected sources
createBasicSummary(content) ==
  [src |-> "basic", empty |-> FALSE,
   sources |-> [k \in 1..Len(Take(content, 10)) |-> content[k].url],
   count |-> Len(content)]

\* (variant) without the inner catch's fallback the report stays ''
PartialReportNoFallback(resp, content) ==
  LlmReport(IF resp = "error" THEN "blank" ELSE resp)

\* the report of the catch block, lines 201-208: generateReport's value, or
\* the basic summary when generateReport throws
PartialReportOf(resp, content) ==
  IF resp = "error" THEN createBasicSummary(content) ELSE LlmReport(resp)

\* (variant) the allowPartialResults flag is not consulted
ReturnsPartialAnyFlag(allow, content) == Len(content) > 0

\* the catch block returns a partial result instead of rethrowing
ReturnsPartial(allow, content) == allow /\ Len(content) > 0

\* partialError = error.message || 'Unknown error'
PartialErrorOf(error) ==
  IF error.message = "" THEN "Unknown error" ELSE error.message

\* ------------------------------------------------------------------- state
VARIABLES
  pc,                  \* where execute stands: the step whose cancellation poll comes next
  depth,               \* options.depth
  allowPartialResults, \* options.allowPartialResults
  aborted,             \* options.signal.aborted
  cacheEnabled,        \* the Cache is enabled and has a database
  urlCache,            \* the search_cache table: URL -> content
  seenUrls,            \* Pipeline.seenUrls
  validCount,          \* validQueries.length
  initialQueries,
  queries,             \* the queries of the current round
  round,               \* the loop variable of the round loop
  currentRound,
  executedQueries,
  allSummaries,
  allScrapedContent,
  uniqueResults,       \* the merged results of the round's searches so far
  searchIdx,           \* i of executeSearches: searches of the round done so far
  rankedContent,
  rankParsed,           \* "none", or whether the ranking response parsed: "yes", "no"
  partialError,
  result,              \* <<>> or <<the ResearchResult execute returned>>
  thrown,              \* <<>> or <<the error execute threw>>
  \* ---- history of the call, for stating properties
  started,             \* kinds of external calls the last step started
  cancelSeen,          \* a cancellation poll of this call found the signal set
  caught,              \* <<>> or <<the error the catch block received>>
  evalParsed,          \* "none", or whether the last evaluation response parsed
  loopExit,            \* how the round loop was left
  roundLens,           \* number of items each scrape step of the call returned
  uncachedResults,     \* scrapeResults' input to scrapeMany in the last scrape step
  freshlyScraped,      \* scrapeMany's answer in the last scrape step
  scrapeFailures,      \* URLs whose scrape threw in the last scrape step
  reportAttempts,      \* generateReport calls made by the catch block
  reportError,         \* <<>> or <<the error that call threw>>
  sinkThrowsAt,         \* options.onProgress: the percentage at which the sink throws,
                        \* NeverThrows for a sink that returns from every call
  progressLog           \* the percentages passed to the sink in this call, in order

configVars == <<depth, allowPartialResults, cacheEnabled, sinkThrowsAt>>
sessionVars == <<validCount, initialQueries, queries, round, currentRound, executedQueries,
                 allSummaries, allScrapedContent, uniqueResults, searchIdx,
                 rankedContent, rankParsed>>
scrapeVars == <<seenUrls, urlCache, roundLens, uncachedResults, freshlyScraped,
                scrapeFailures>>
vars == <<pc, depth, allowPartialResults, aborted, cacheEnabled, urlCache, seenUrls,
          validCount, initialQueries, queries, round, currentRound, executedQueries,
          allSummaries, allScrapedContent, uniqueResults, searchIdx, rankedContent, rankParsed,
          partialError, result, thrown, started, cancelSeen, caught, evalParsed,
          loopExit, roundLens, uncachedResults, freshlyScraped, scrapeFailures,
          reportAttempts, reportError, sinkThrowsAt, progressLog>>

\* no percentage: the sink throws on no event
NeverThrows == 0
\* the percentages of the progress events, lines 78-179
PlanningProgress == 10
EvaluatingProgress(r) == 30 + (r * 20)
GoalMetProgress == 70
SearchingProgress(r) == 25 + (r * 20)
ScrapingProgress(r) == 40 + (r * 20)
SummarizingProgress(r) == 55 + (r * 20)
RankingProgress == 85
ReportingProgress == 95
CompleteProgress == 100

\* what a progress sink throws
SinkError == [name |-> "Error", message |-> "sink failed"]

depthConfig == DEPTH_CONFIGS[depth]

EmptyCache == [u \in Urls |-> NoValue]

\* an enabled cache holds a page that an earlier process has scraped
WarmCache ==
  [EmptyCache EXCEPT !["https://solar.mit.edu/lab"] = "page: mit solar lab"]

\* ------------------------------------------------- the components' state
\* The three clients, the rate limiter and the cache are exercised on their
\* own: each has its own variables, which stay at rest while execute runs.

VARIABLES
  client,               \* the client the calls are made on: "llm", "scrape" or "search"
  instanceCount,        \* config.instances.length (1 for the LLM and the scraper)
  priorityOrder,        \* config.priorityOrder
  maxRetries,           \* config.maxRetries (the LLM and the scraper fix it at 3)
  currentInstanceIndex, \* SearchProvider.currentInstanceIndex, 0-based
  callCount,            \* number of calls begun on the provider
  callPc,               \* where the call stands
  callQuery,            \* the query (prompt, URL) of the call
  script,               \* how the remote answers the exchanges of the call
  exchanges,            \* the exchanges of the call: selection, instance, retry, answer
  instanceAttempt,      \* the loop variable of search's instance loop
  instanceUrl,          \* the instance search selected, 0-based
  retry,                \* the loop variable of the retry loop (attempt)
  totalRetryCount,
  lastError,            \* <<>> or <<the answer the last failed exchange got>>
  sleeps,               \* the sleeps of the call: retry index, delay, failed answer
  callResult,           \* <<>> or <<the answer the call returned>>
  callThrown            \* <<>> or <<the error the call threw>>

clientVars == <<client, instanceCount, priorityOrder, maxRetries, currentInstanceIndex,
                callCount, callPc, callQuery, script, exchanges, instanceAttempt, instanceUrl,
                retry, totalRetryCount, lastError, sleeps, callResult, callThrown>>

VARIABLES
  maxConcurrent,        \* RateLimiter.maxConcurrent
  queue,                \* RateLimiter.queue: the units not yet taken
  processing,           \* RateLimiter.processing
  sinceLast,            \* Date.now() - lastExecutionTime, counted up to MinInterval
  sleepers,             \* the process() calls asleep: the time each still has to wait
  running,              \* the units whose fn() has been called and has not settled
  added,                \* number of units passed to add
  startCount,           \* unit -> number of times its fn() was called
  settled,              \* unit -> the settlements of its promise, in order
  outcomes,             \* unit -> <<>> or <<how its fn() ended>>
  closest,              \* the least time between two consecutive admissions so far
  peak                  \* the largest number of units running at once so far

limiterVars == <<maxConcurrent, queue, processing, sinceLast, sleepers, running, added,
                 startCount, settled, outcomes, closest, peak>>

VARIABLES
  enabled,              \* Cache.enabled
  db,                   \* the Cache has an open database
  now,                  \* Date.now(), in ticks
  search_cache,         \* key -> <<>> or <<[content, scraped_at]>>
  llm_cache,            \* prompt_hash -> <<>> or <<[response, created_at]>>
  lastWrite,            \* <<>> or <<the last write the open cache took: partition, key, value, time>>
  lastRead,             \* <<>> or <<the last read of the open cache: partition, key, answer, row found>>
  lastOp                \* <<>> or <<the last operation, when it met a closed guard or a
                        \* failing storage layer: its name, whether the storage layer
                        \* failed, whether it raised, its answer, whether it wrote>>

storeVars == <<enabled, db, now, search_cache, llm_cache, lastWrite, lastRead, lastOp>>

VARIABLES
  planned,              \* plan.queries: the candidate queries of the planner
  planDepth,            \* the depth tier of the call
  planPc,               \* "idle", "planned", "validated", "sliced"
  verdicts,             \* validateQuery(q).valid for each candidate, in order
  planInitial           \* initialQueries

queryVars == <<planned, planDepth, planPc, verdicts, planInitial>>


VARIABLES
  execPc,               \* per execute call: "idle", "running", "done"
  thisSeenUrls,         \* this.seenUrls of the one Pipeline instance
  thisCostEstimator,    \* this.costEstimator: [enabled, usageLog]
  costTracking,         \* per call: options.enableCostTracking
  ownUrls,              \* per call: the URLs of the items it scraped
  misflagged,           \* per call: an item of it got a duplicate flag other than
                        \* "an earlier item of this call has the URL"
  generated,            \* per call: the generate calls of it that have returned
  costs,                \* per call: <<>> or <<what getBreakdown returned to it: whether
                        \* defined, its entries of this call, its entries of others>>
  shrunk,               \* per call: the seen-URL set lost a URL while it ran
  overlapped            \* per call: another call ran while it ran

execVars == <<execPc, thisSeenUrls, thisCostEstimator, costTracking, ownUrls, misflagged,
              generated, costs, shrunk, overlapped>>


VARIABLES
  modelConfig,          \* this.modelConfig: [customModels, tiers, tierModels]
  agentType,            \* the agent whose step is about to run
  chosenModel           \* <<>> or <<what getModelForAgent returned>>

modelVars == <<modelConfig, agentType, chosenModel>>


\* ------------------------------------------ state of one scoreContent call
VARIABLES
  scoreTitle,    \* the title passed to scoreContent
  scoreUrl,      \* the URL passed
  scoreBody,     \* the content passed
  scorePc,       \* "input" before the call, "scored" after it
  scoreResult    \* <<>> before the call, <<the number returned>> after it

scoreVars == <<scoreTitle, scoreUrl, scoreBody, scorePc, scoreResult>>


\* ------------------------------------------ state of one executeSearches call
VARIABLES
  searchQueries,   \* the queries argument
  loopI,           \* i of the for loop
  searchPc,        \* "send", "await", "sleep", "merge", "returned", "thrown"
  inFlight,        \* the indexes whose search.search has not settled yet
  allResults,      \* allResults: one answer per search that returned
  searchLog,       \* what the call did so far: searches sent, returns, delays
  mergedResults    \* <<>> until the call returns, then <<what it returned>>

searchVars == <<searchQueries, loopI, searchPc, inFlight, allResults, searchLog,
                mergedResults>>


\* ------------------------- state of execute's control flow over client calls
VARIABLES
  flowPc,            \* the step execute stands at, "returned" or "thrown"
  flowDepth,         \* options.depth
  flowAllowPartial,  \* options.allowPartialResults
  flowRound,         \* round of the for loop
  flowIterations,    \* how many times the body of the round loop was entered
  flowContent,       \* allScrapedContent.length > 0
  flowItems,         \* how many items the round's searches gave
  flowLeft,          \* the client calls the step has still to make
  flowCalling,       \* a client call of the step is under way
  searchConfig       \* the SearchProvider's instances.length and maxRetries

flowVars == <<flowPc, flowDepth, flowAllowPartial, flowRound, flowIterations, flowContent,
              flowItems, flowLeft, flowCalling, searchConfig>>


componentVars == <<clientVars, limiterVars, storeVars, queryVars, execVars, modelVars, scoreVars, searchVars, flowVars>>

Units == 1..MaxUnits

ClientAtRest ==
  /\ client = "llm"
  /\ instanceCount = 1
  /\ priorityOrder = FALSE
  /\ maxRetries = 3
  /\ currentInstanceIndex = 0
  /\ callCount = 0
  /\ callPc = "idle"
  /\ callQuery = NoValue
  /\ script = <<>>
  /\ exchanges = <<>>
  /\ instanceAttempt = 0
  /\ instanceUrl = 0
  /\ retry = 0
  /\ totalRetryCount = 0
  /\ lastError = <<>>
  /\ sleeps = <<>>
  /\ callResult = <<>>
  /\ callThrown = <<>>

LimiterAtRest ==
  /\ maxConcurrent = 1
  /\ queue = <<>>
  /\ processing = 0
  /\ sinceLast = MinInterval
  /\ sleepers = [d \in 0..MinInterval |-> 0]
  /\ running = {}
  /\ added = 0
  /\ startCount = [u \in Units |-> 0]
  /\ settled = [u \in Units |-> <<>>]
  /\ outcomes = [u \in Units |-> <<>>]
  /\ closest = MinInterval
  /\ peak = 0

StoreAtRest ==
  /\ enabled = FALSE
  /\ db = FALSE
  /\ now = 0
  /\ search_cache = <<>>
  /\ llm_cache = <<>>
  /\ lastWrite = <<>>
  /\ lastRead = <<>>
  /\ lastOp = <<>>

QueryAtRest ==
  /\ planned = <<>>
  /\ planDepth = "normal"
  /\ planPc = "idle"
  /\ verdicts = <<>>
  /\ planInitial = <<>>

ExecAtRest ==
  /\ execPc = <<>>
  /\ thisSeenUrls = {}
  /\ thisCostEstimator = <<>>
  /\ costTracking = <<>>
  /\ ownUrls = <<>>
  /\ misflagged = <<>>
  /\ generated = <<>>
  /\ costs = <<>>
  /\ shrunk = <<>>
  /\ overlapped = <<>>

ModelAtRest ==
  /\ modelConfig = <<>>
  /\ agentType = "planner"
  /\ chosenModel = <<>>

ScoreAtRest ==
  /\ scoreTitle = ""
  /\ scoreUrl = "/relative/path"
  /\ scoreBody = ""
  /\ scorePc = "input"
  /\ scoreResult = <<>>

SearchLoopAtRest ==
  /\ searchQueries = <<>>
  /\ loopI = 0
  /\ searchPc = "send"
  /\ inFlight = {}
  /\ allResults = <<>>
  /\ searchLog = <<>>
  /\ mergedResults = <<>>

FlowAtRest ==
  /\ flowPc = "idle"
  /\ flowDepth = "normal"
  /\ flowAllowPartial = TRUE
  /\ flowRound = 0
  /\ flowIterations = 0
  /\ flowContent = FALSE
  /\ flowItems = 0
  /\ flowLeft = 0
  /\ flowCalling = FALSE
  /\ searchConfig = [instances |-> 1, maxRetries |-> 3]

InitWithSink(sinks) ==
  /\ sinkThrowsAt \in sinks
  /\ pc = "idle"
  /\ depth = "normal"
  /\ allowPartialResults = TRUE
  /\ aborted = FALSE
  /\ cacheEnabled \in BOOLEAN
  /\ urlCache = (IF cacheEnabled THEN WarmCache ELSE EmptyCache)
  /\ seenUrls = {}
  /\ validCount = 0
  /\ initialQueries = <<>>
  /\ queries = <<>>
  /\ round = 0
  /\ currentRound = 0
  /\ executedQueries = <<>>
  /\ allSummaries = <<>>
  /\ allScrapedContent = <<>>
  /\ uniqueResults = <<>>
  /\ searchIdx = 0
  /\ rankedContent = <<>>
  /\ rankParsed = "none"
  /\ partialError = NoValue
  /\ result = <<>>
  /\ thrown = <<>>
  /\ started = {}
  /\ cancelSeen = FALSE
  /\ caught = <<>>
  /\ evalParsed = "none"
  /\ loopExit = "none"
  /\ roundLens = <<>>
  /\ uncachedResults = <<>>
  /\ freshlyScraped = <<>>
  /\ scrapeFailures = {}
  /\ reportAttempts = 0
  /\ reportError = <<>>
  /\ progressLog = <<>>
  /\ ClientAtRest
  /\ LimiterAtRest
  /\ StoreAtRest
  /\ QueryAtRest
  /\ ExecAtRest
  /\ ModelAtRest
  /\ ScoreAtRest
  /\ SearchLoopAtRest
  /\ FlowAtRest

\* The instance before its call of execute; the caller passes no progress
\* sink (the default, () => {}) or one that returns from every call.
Init == InitWithSink({NeverThrows})

\* ------------------------------------------------------------------ execute
\* A call of execute begins: lines 50-73.  The seen-URL set is cleared and
\* the locals of the call are fresh.
Execute ==
  /\ UNCHANGED componentVars
  /\ pc = "idle"
  /\ \E d \in ResearchDepth, allow \in BOOLEAN, sig \in BOOLEAN :
       /\ depth' = d
       /\ allowPartialResults' = allow
       /\ aborted' = sig
  /\ pc' = "plan"
  /\ seenUrls' = {}
  /\ validCount' = 0
  /\ initialQueries' = <<>>
  /\ queries' = <<>>
  /\ round' = 0
  /\ currentRound' = 0
  /\ executedQueries' = <<>>
  /\ allSummaries' = <<>>
  /\ allScrapedContent' = <<>>
  /\ uniqueResults' = <<>>
  /\ searchIdx' = 0
  /\ rankedContent' = <<>>
  /\ rankParsed' = "none"
  /\ partialError' = NoValue
  /\ result' = <<>>
  /\ thrown' = <<>>
  /\ started' = {}
  /\ cancelSeen' = FALSE
  /\ caught' = <<>>
  /\ evalParsed' = "none"
  /\ loopExit' = "none"
  /\ roundLens' = <<>>
  /\ uncachedResults' = <<>>
  /\ freshlyScraped' = <<>>
  /\ scrapeFailures' = {}
  /\ reportAttempts' = 0
  /\ reportError' = <<>>
  /\ progressLog' = <<>>
  /\ UNCHANGED <<cacheEnabled, urlCache, sinkThrowsAt>>

Running == pc \in {"plan", "round", "search", "scrape", "summarize", "rank", "report",
                   "partial"}

\* the caller signals the AbortController while the call is suspended
Abort ==
  /\ UNCHANGED componentVars
  /\ Running
  /\ ~aborted
  /\ aborted' = TRUE
  /\ UNCHANGED <<pc, configVars, sessionVars, scrapeVars, partialError, result, thrown,
                 started, cancelSeen, caught, evalParsed, loopExit, reportAttempts, reportError,
                 progressLog>>

\* The catch block of execute up to its first await (lines 192-229): with
\* partial results allowed and an item accumulated it goes on to the report
\* attempt, otherwise it rethrows the error.
Catch(error) ==
  /\ partialError' = PartialErrorOf(error)
  /\ caught' = <<error>>
  /\ result' = <<>>
  /\ IF ReturnsPartial(allowPartialResults, allScrapedContent)
       THEN pc' = "partial" /\ thrown' = <<>>
       ELSE pc' = "thrown" /\ thrown' = <<error>>

\* a step that throws changes nothing else of the call
Throws(error, calls) ==
  /\ Catch(error)
  /\ started' = calls
  /\ UNCHANGED <<configVars, aborted, validCount, initialQueries, queries, round,
                 executedQueries, allSummaries, allScrapedContent, uniqueResults,
                 searchIdx, rankedContent, rankParsed, scrapeVars, loopExit, reportAttempts, reportError>>

\* checkCancellation found the signal set: it throws before the step starts
Cancelled ==
  /\ aborted
  /\ cancelSeen' = TRUE
  /\ Throws(CancelError, {})
  /\ UNCHANGED <<currentRound, evalParsed, progressLog>>

\* onProgress({ ..., progress: p }) for each p of ps, in order
onProgress(ps) == progressLog' = progressLog \o ps

\* the sink throws when it is passed the percentage p
SinkThrows(p) == sinkThrowsAt = p

\* onProgress(p) throws: the exception leaves the try block
SinkFails(p) ==
  /\ SinkThrows(p)
  /\ onProgress(<<p>>)
  /\ Throws(SinkError, {})
  /\ UNCHANGED <<evalParsed, cancelSeen>>

\* Step 1, lines 76-91: the poll, planQueries, the validity filter, the slice
Plan ==
  /\ UNCHANGED componentVars
  /\ pc = "plan"
  /\ \/ Cancelled
     \/ /\ ~aborted
        /\ SinkFails(PlanningProgress)
        /\ UNCHANGED currentRound
     \/ /\ ~aborted
        /\ ~SinkThrows(PlanningProgress)
        /\ onProgress(<<PlanningProgress>>)
        /\ \E o \in GenOutcomes(cacheEnabled) :
             IF o.resp = "error"
               THEN /\ Throws(LLMError, LlmStarted(o))
                    /\ UNCHANGED <<currentRound, evalParsed, cancelSeen>>
               ELSE \E candidates \in (IF o.resp = "json" THEN PlanResponses
                                       ELSE {<<UserQuery>>}) :
                      /\ validCount' = Len(validQueries(candidates))
                      /\ initialQueries' = InitialQueriesOf(candidates, depth)
                      /\ pc' = "round"
                      /\ started' = LlmStarted(o)
                      /\ UNCHANGED <<configVars, aborted, queries, round, currentRound,
                                     executedQueries, allSummaries, allScrapedContent,
                                     uniqueResults, searchIdx, rankedContent, rankParsed, scrapeVars,
                                     partialError, result, thrown, cancelSeen, caught,
                                     evalParsed, loopExit, reportAttempts, reportError>>

\* The head of a loop iteration, lines 95-130: the poll, currentRound, the
\* queries of the round; in a round > 0 the evaluation and its follow-ups.
RoundHead ==
  /\ UNCHANGED componentVars
  /\ pc = "round"
  /\ round < depthConfig.maxRounds
  /\ \/ Cancelled
     \/ /\ ~aborted
        /\ round = 0
        /\ currentRound' = round + 1
        /\ UNCHANGED progressLog
        /\ queries' = initialQueries
        /\ IF Len(initialQueries) = 0
             THEN pc' = "rank" /\ loopExit' = "no_queries"
             ELSE pc' = "search" /\ loopExit' = loopExit
        /\ started' = {}
        /\ uniqueResults' = <<>>
        /\ searchIdx' = 0
        /\ UNCHANGED <<configVars, aborted, validCount, initialQueries, round, executedQueries,
                       allSummaries, allScrapedContent, rankedContent, rankParsed, scrapeVars,
                       partialError, result, thrown, cancelSeen, caught, evalParsed,
                       reportAttempts, reportError>>
     \/ /\ ~aborted
        /\ round > 0
        /\ currentRound' = round + 1
        /\ SinkFails(EvaluatingProgress(round))
     \/ /\ ~aborted
        /\ round > 0
        /\ currentRound' = round + 1
        /\ ~SinkThrows(EvaluatingProgress(round))
        /\ \E o \in GenOutcomes(cacheEnabled) :
             IF o.resp = "error"
               THEN /\ Throws(LLMError, LlmStarted(o))
                    /\ onProgress(<<EvaluatingProgress(round)>>)
                    /\ UNCHANGED <<evalParsed, cancelSeen>>
               ELSE \E evaluation \in
                         (IF o.resp = "json"
                            THEN { [goal_met |-> g, follow_up_queries |-> f] :
                                     g \in BOOLEAN, f \in FollowUpResponses }
                            ELSE {EvaluationFallback}) :
                      /\ evalParsed' = (IF o.resp = "json" THEN "yes" ELSE "no")
                      /\ IF EvaluationEndsLoop(evaluation) /\ SinkThrows(GoalMetProgress)
                           THEN /\ onProgress(<<EvaluatingProgress(round), GoalMetProgress>>)
                                /\ Throws(SinkError, LlmStarted(o))
                                /\ UNCHANGED cancelSeen
                           ELSE /\ started' = LlmStarted(o)
                                /\ IF EvaluationEndsLoop(evaluation)
                                     THEN /\ onProgress(<<EvaluatingProgress(round), GoalMetProgress>>)
                                          /\ pc' = "rank"
                                          /\ loopExit' = "evaluation"
                                          /\ queries' = <<>>
                                     ELSE /\ onProgress(<<EvaluatingProgress(round)>>)
                                          /\ queries' = FollowUpsOf(evaluation.follow_up_queries)
                                          /\ IF Len(queries') = 0
                                               THEN pc' = "rank" /\ loopExit' = "no_queries"
                                               ELSE pc' = "search" /\ loopExit' = loopExit
                                /\ uniqueResults' = <<>>
                                /\ searchIdx' = 0
                                /\ UNCHANGED <<configVars, aborted, validCount, initialQueries, round,
                                               executedQueries, allSummaries, allScrapedContent,
                                               rankedContent, rankParsed, scrapeVars, partialError, result,
                                               thrown, cancelSeen, caught, reportAttempts, reportError>>

\* One search of executeSearches, lines 133-141 and 252-274; the first one
\* follows the poll, the last one is followed by the merge by URL and the
\* push onto executedQueries.  (The Map of the merge is filled here as the
\* answers arrive; the code fills it from the same answers in the same order.)
SearchStep ==
  /\ UNCHANGED componentVars
  /\ pc = "search"
  /\ \/ /\ searchIdx = 0
        /\ Cancelled
     \/ /\ searchIdx = 0
        /\ ~aborted
        /\ SinkFails(SearchingProgress(round))
        /\ UNCHANGED currentRound
     \/ /\ searchIdx = 0 => ~aborted /\ ~SinkThrows(SearchingProgress(round))
        /\ onProgress(IF searchIdx = 0 THEN <<SearchingProgress(round)>> ELSE <<>>)
        /\ \/ /\ Throws(SearchError, {"search"})
              /\ UNCHANGED <<currentRound, evalParsed, cancelSeen>>
           \/ \E answer \in SearchAnswers :
                /\ Len(allScrapedContent) + Len(MergeByUrl(uniqueResults, answer))
                     <= MaxSources
                /\ uniqueResults' = MergeByUrl(uniqueResults, answer)
                /\ searchIdx' = searchIdx + 1
                /\ IF searchIdx + 1 = Len(queries)
                     THEN /\ executedQueries' = executedQueries \o queries
                          /\ pc' = "scrape"
                     ELSE /\ executedQueries' = executedQueries
                          /\ pc' = "search"
                /\ started' = {"search"}
                /\ UNCHANGED <<configVars, aborted, validCount, initialQueries, queries, round,
                               currentRound, allSummaries, allScrapedContent,
                               rankedContent, rankParsed, scrapeVars, partialError, result, thrown,
                               cancelSeen, caught, evalParsed, loopExit, reportAttempts, reportError>>

\* The scrape step, lines 144-152 and 280-345.
Scrape ==
  /\ UNCHANGED componentVars
  /\ pc = "scrape"
  /\ \/ Cancelled
     \/ /\ ~aborted
        /\ SinkFails(ScrapingProgress(round))
        /\ UNCHANGED currentRound
     \/ /\ ~aborted
        /\ ~SinkThrows(ScrapingProgress(round))
        /\ onProgress(<<ScrapingProgress(round)>>)
        /\ LET results == uniqueResults
               uncached == UncachedOf(results, urlCache, cacheEnabled)
           IN  \E failures \in SUBSET {r.url : r \in Range(uncached)} :
                 LET fresh == IF Len(uncached) > 0 THEN scrapeMany(uncached, failures)
                              ELSE <<>>
                     scrapedContent ==
                       SortByQuality(ScrapedBeforeSort(results, seenUrls, urlCache,
                                                       cacheEnabled, fresh))
                 IN  /\ seenUrls' = seenUrls \cup {r.url : r \in Range(results)}
                     /\ urlCache' = CacheAfterScrape(urlCache, cacheEnabled, fresh)
                     /\ allScrapedContent' = allScrapedContent \o scrapedContent
                     /\ roundLens' = Append(roundLens, Len(scrapedContent))
                     /\ uncachedResults' = uncached
                     /\ freshlyScraped' = fresh
                     /\ scrapeFailures' = failures
                     /\ started' = (IF Len(uncached) > 0 THEN {"scrape"} ELSE {})
        /\ pc' = "summarize"
        /\ UNCHANGED <<configVars, aborted, validCount, initialQueries, queries, round,
                       currentRound, executedQueries, allSummaries, uniqueResults,
                       searchIdx, rankedContent, rankParsed, partialError, result, thrown,
                       cancelSeen, caught, evalParsed, loopExit, reportAttempts, reportError>>

\* (variant) summarizeContent over everything scraped so far
RoundItemsAccumulated == allScrapedContent

\* the items the last scrape step returned
RoundItems ==
  IF roundLens = <<>> THEN <<>>
  ELSE SubSeq(allScrapedContent,
              Len(allScrapedContent) - roundLens[Len(roundLens)] + 1,
              Len(allScrapedContent))

\* The summarize step, lines 154-164 and 347-367, and the loop's increment
\* and test.
Summarize ==
  /\ UNCHANGED componentVars
  /\ pc = "summarize"
  /\ \/ Cancelled
     \/ /\ ~aborted
        /\ SinkFails(SummarizingProgress(round))
        /\ UNCHANGED currentRound
     \/ /\ ~aborted
        /\ ~SinkThrows(SummarizingProgress(round))
        /\ onProgress(<<SummarizingProgress(round)>>)
        /\ LET content == RoundItems
           IN  \E os \in [1..Len(content) -> GenOutcomes(cacheEnabled)] :
                 IF \E i \in 1..Len(content) : os[i].resp = "error"
                   THEN LET k == CHOOSE i \in 1..Len(content) :
                                   /\ os[i].resp = "error"
                                   /\ \A j \in 1..(i - 1) : os[j].resp # "error"
                        IN  /\ \A j \in (k + 1)..Len(content) : os[j] = os[k]
                            /\ Throws(LLMError, UNION {LlmStarted(os[j]) : j \in 1..k})
                            /\ UNCHANGED <<currentRound, evalParsed, cancelSeen>>
                   ELSE /\ allSummaries' = allSummaries \o
                             [i \in 1..Len(content) |-> SummaryOf(content[i], os[i].resp)]
                        /\ round' = round + 1
                        /\ IF round + 1 < depthConfig.maxRounds
                             THEN pc' = "round" /\ loopExit' = loopExit
                             ELSE pc' = "rank" /\ loopExit' = "exhausted"
                        /\ started' = UNION {LlmStarted(os[j]) : j \in 1..Len(content)}
                        /\ UNCHANGED <<configVars, aborted, validCount, initialQueries, queries,
                                       currentRound, executedQueries, allScrapedContent,
                                       uniqueResults, searchIdx, rankedContent, rankParsed, scrapeVars,
                                       partialError, result, thrown, cancelSeen, caught,
                                       evalParsed, reportAttempts, reportError>>

\* Step 3, lines 166-169 and 390-415
Rank ==
  /\ UNCHANGED componentVars
  /\ pc = "rank"
  /\ \/ Cancelled
     \/ /\ ~aborted
        /\ SinkFails(RankingProgress)
        /\ UNCHANGED currentRound
     \/ /\ ~aborted
        /\ ~SinkThrows(RankingProgress)
        /\ onProgress(<<RankingProgress>>)
        /\ \E o \in GenOutcomes(cacheEnabled) :
             IF o.resp = "error"
               THEN /\ Throws(LLMError, LlmStarted(o))
                    /\ UNCHANGED <<currentRound, evalParsed, cancelSeen>>
               ELSE \E indexes \in (IF o.resp = "json" THEN Rankings(Len(allScrapedContent))
                                    ELSE {<<>>}) :
                      /\ rankParsed' = (IF o.resp = "json" THEN "yes" ELSE "no")
                      /\ rankedContent' = (IF o.resp = "json"
                                             THEN RankedBy(allScrapedContent, indexes)
                                             ELSE allScrapedContent)
                      /\ pc' = "report"
                      /\ started' = LlmStarted(o)
                      /\ UNCHANGED <<configVars, aborted, validCount, initialQueries, queries,
                                     round, currentRound, executedQueries, allSummaries,
                                     allScrapedContent, uniqueResults, searchIdx,
                                     scrapeVars, partialError, result, thrown, cancelSeen,
                                     caught, evalParsed, loopExit, reportAttempts, reportError>>

\* Step 4, lines 171-190 and 417-441: the report and the returned result
Report ==
  /\ UNCHANGED componentVars
  /\ pc = "report"
  /\ \/ Cancelled
     \/ /\ ~aborted
        /\ SinkFails(ReportingProgress)
        /\ UNCHANGED currentRound
     \/ /\ ~aborted
        /\ ~SinkThrows(ReportingProgress)
        /\ \E o \in GenOutcomes(cacheEnabled) :
             IF o.resp = "error"
               THEN /\ Throws(LLMError, LlmStarted(o))
                    /\ onProgress(<<ReportingProgress>>)
                    /\ UNCHANGED <<currentRound, evalParsed, cancelSeen>>
               ELSE IF SinkThrows(CompleteProgress)
               THEN /\ Throws(SinkError, LlmStarted(o))
                    /\ onProgress(<<ReportingProgress, CompleteProgress>>)
                    /\ UNCHANGED <<currentRound, evalParsed, cancelSeen>>
               ELSE /\ onProgress(<<ReportingProgress, CompleteProgress>>)
                    /\ result' = <<[report |-> LlmReport(o.resp),
                                    queriesExecuted |-> executedQueries,
                                    sourcesScraped |-> Len(allScrapedContent),
                                    rounds |-> currentRound,
                                    partial |-> FALSE,
                                    error |-> NoValue]>>
                    /\ pc' = "returned"
                    /\ started' = LlmStarted(o)
                    /\ UNCHANGED <<configVars, aborted, sessionVars, scrapeVars,
                                   partialError, thrown, cancelSeen, caught, evalParsed,
                                   loopExit, reportAttempts, reportError>>

\* The rest of the catch block, lines 200-224: one generateReport call on the
\* first ten items, createBasicSummary if it throws, the partial result.
PartialReport ==
  /\ UNCHANGED componentVars
  /\ pc = "partial"
  /\ \E o \in GenOutcomes(cacheEnabled) :
       /\ reportError' = (IF o.resp = "error" THEN <<LLMError>> ELSE <<>>)
       /\ result' = <<[report |-> PartialReportOf(o.resp, allScrapedContent),
                       queriesExecuted |-> executedQueries,
                       sourcesScraped |-> Len(allScrapedContent),
                       rounds |-> currentRound,
                       partial |-> TRUE,
                       error |-> partialError]>>
       /\ started' = LlmStarted(o)
  /\ reportAttempts' = reportAttempts + 1
  /\ pc' = "returned"
  /\ UNCHANGED <<configVars, aborted, sessionVars, scrapeVars, partialError, thrown,
                 cancelSeen, caught, evalParsed, loopExit, progressLog>>

Next ==
  \/ Execute
  \/ Abort
  \/ Plan
  \/ RoundHead
  \/ SearchStep
  \/ Scrape
  \/ Summarize
  \/ Rank
  \/ Report
  \/ PartialReport

Spec == Init /\ [][Next]_vars

\* the sinks a caller passes: one that returns from every call, one that
\* throws on the first event, on the goal-met event, on the last event
SinkFaults == {NeverThrows, PlanningProgress, GoalMetProgress, CompleteProgress}

SinkInit == InitWithSink(SinkFaults)

\* execute with any of these sinks
SinkSpec == SinkInit /\ [][Next]_vars

TypeOK ==
  /\ pc \in {"idle", "plan", "round", "search", "scrape", "summarize", "rank", "report",
             "partial", "returned", "thrown"}
  /\ depth \in ResearchDepth
  /\ seenUrls \subseteq Urls
  /\ round \in 0..3
  /\ currentRound \in 0..3

\* ============================================================ the three clients
\* LLMProvider.generate, ScraperProvider.executeScrape and SearchProvider.search
\* each wrap one remote exchange in a retry loop.

\* every variable of execute at its initial value
PipelineAtRest ==
  /\ pc = "idle"
  /\ depth = "normal"
  /\ allowPartialResults = TRUE
  /\ aborted = FALSE
  /\ cacheEnabled = FALSE
  /\ urlCache = EmptyCache
  /\ seenUrls = {}
  /\ validCount = 0
  /\ initialQueries = <<>>
  /\ queries = <<>>
  /\ round = 0
  /\ currentRound = 0
  /\ executedQueries = <<>>
  /\ allSummaries = <<>>
  /\ allScrapedContent = <<>>
  /\ uniqueResults = <<>>
  /\ searchIdx = 0
  /\ rankedContent = <<>>
  /\ rankParsed = "none"
  /\ partialError = NoValue
  /\ result = <<>>
  /\ thrown = <<>>
  /\ started = {}
  /\ cancelSeen = FALSE
  /\ caught = <<>>
  /\ evalParsed = "none"
  /\ loopExit = "none"
  /\ roundLens = <<>>
  /\ uncachedResults = <<>>
  /\ freshlyScraped = <<>>
  /\ scrapeFailures = {}
  /\ reportAttempts = 0
  /\ reportError = <<>>
  /\ sinkThrowsAt = NeverThrows
  /\ progressLog = <<>>

allVars == <<vars, componentVars>>

Clients == {"llm", "scrape", "search"}

\* maxRetries of the LLM client and of the scraper, and the default of search
DefaultMaxRetries == 3

\* the first delay of each client's exponential backoff, in ms
LlmBaseDelay == 100
ScrapeBaseDelay == 1000
SearchBaseDelay == 500

\* What one exchange with the remote ends in, as the catch blocks see it:
\* response = the error carries a response, status = its HTTP status,
\* code = the error's code, retryAfter = the retry-after header ("" if absent).
\* "200 ok" is a usable answer; "200 invalid body" is an answer the client
\* rejects (no content, no results field), which throws an Error without response.
AnswerTable ==
  [a \in {"200 ok", "200 invalid body", "404", "429", "429 retry-after: 2",
          "429 retry-after: Wed, 21 Oct 2026 07:28:00 GMT", "503", "503 retry-after: 2",
          "ECONNREFUSED", "ECONNABORTED"} |->
     CASE a = "200 ok" ->
            [response |-> TRUE, status |-> 200, code |-> "", retryAfter |-> ""]
       [] a = "200 invalid body" ->
            [response |-> FALSE, status |-> 0, code |-> "", retryAfter |-> ""]
       [] a = "404" ->
            [response |-> TRUE, status |-> 404, code |-> "ERR_BAD_REQUEST", retryAfter |-> ""]
       [] a = "429" ->
            [response |-> TRUE, status |-> 429, code |-> "ERR_BAD_REQUEST", retryAfter |-> ""]
       [] a = "429 retry-after: 2" ->
            [response |-> TRUE, status |-> 429, code |-> "ERR_BAD_REQUEST", retryAfter |-> "2"]
       [] a = "429 retry-after: Wed, 21 Oct 2026 07:28:00 GMT" ->
            [response |-> TRUE, status |-> 429, code |-> "ERR_BAD_REQUEST",
             retryAfter |-> "Wed, 21 Oct 2026 07:28:00 GMT"]
       [] a = "503" ->
            [response |-> TRUE, status |-> 503, code |-> "ERR_BAD_RESPONSE", retryAfter |-> ""]
       [] a = "503 retry-after: 2" ->
            [response |-> TRUE, status |-> 503, code |-> "ERR_BAD_RESPONSE", retryAfter |-> "2"]
       [] a = "ECONNREFUSED" ->
            [response |-> FALSE, status |-> 0, code |-> "ECONNREFUSED", retryAfter |-> ""]
       [] a = "ECONNABORTED" ->
            [response |-> FALSE, status |-> 0, code |-> "ECONNABORTED", retryAfter |-> ""]]

Answers == DOMAIN AnswerTable

Succeeds(a) == a = "200 ok"

\* How a remote answers the exchanges of one call, in order; the last answer
\* repeats for as long as the call goes on.
RemoteScripts ==
  { <<"200 ok">>,
    <<"404">>,
    <<"503">>,
    <<"429">>,
    <<"503", "503", "200 ok">>,
    <<"503", "503", "503", "200 ok">>,
    <<"404", "200 ok">>,
    <<"429", "429", "200 ok">>,
    <<"429 retry-after: 2", "200 ok">>,
    <<"429 retry-after: Wed, 21 Oct 2026 07:28:00 GMT", "200 ok">>,
    <<"503 retry-after: 2", "200 ok">>,
    <<"ECONNREFUSED", "ECONNABORTED", "200 ok">>,
    <<"200 invalid body", "200 ok">> }

AnswerOf(s, k) == s[Min(k, Len(s))]

CallQueries == {"solar cell efficiency", "perovskite stability data"}

\* the value parseInt gives for a header that does not begin with a number
NaN == -1

\* parseInt of a retry-after header
parseInt(header) == IF header = "2" THEN 2 ELSE NaN

RECURSIVE Pow2(_)
\* Math.pow(2, n)
Pow2(n) == IF n = 0 THEN 1 ELSE 2 * Pow2(n - 1)

\* (variant) the header is not consulted
RetryAfterIgnored(header, baseDelay, attempt) == baseDelay * Pow2(attempt)

\* retryAfter ? parseInt(retryAfter) * 1000 : baseDelay * Math.pow(2, attempt)
RetryAfterDelay(header, baseDelay, attempt) ==
  IF header # ""
    THEN (IF parseInt(header) = NaN THEN NaN ELSE parseInt(header) * 1000)
    ELSE baseDelay * Pow2(attempt)

Sleep(ms) == [do |-> "sleep", ms |-> ms]
Break == [do |-> "break", ms |-> 0]
FallThrough == [do |-> "next", ms |-> 0]

\* the catch block of generate: what follows a failed attempt
LlmCatch(error, attempt, limit) ==
  IF error.response /\ error.status = 429 /\ attempt < limit - 1
    THEN Sleep(RetryAfterDelay(error.retryAfter, LlmBaseDelay, attempt))
  ELSE IF error.response /\ error.status >= 500 /\ attempt < limit - 1
    THEN Sleep(LlmBaseDelay * Pow2(attempt))
  ELSE IF error.response /\ error.status >= 400 /\ error.status < 500
    THEN Break
  ELSE IF attempt < limit - 1
    THEN Sleep(LlmBaseDelay * Pow2(attempt))
  ELSE FallThrough

\* the catch block of executeScrape
ScrapeCatch(error, attempt, limit) ==
  IF error.response /\ error.status = 429 /\ attempt < limit - 1
    THEN Sleep(RetryAfterDelay(error.retryAfter, ScrapeBaseDelay, attempt))
  ELSE IF error.response /\ error.status >= 500 /\ attempt < limit - 1
    THEN Sleep(ScrapeBaseDelay * Pow2(attempt))
  ELSE IF error.code = "ECONNABORTED" /\ attempt < limit - 1
    THEN Sleep(ScrapeBaseDelay * Pow2(attempt))
  ELSE IF error.response /\ error.status >= 400 /\ error.status < 500
          /\ error.status # 429
    THEN Break
  ELSE IF ~error.response /\ attempt < limit - 1
    THEN Sleep(ScrapeBaseDelay * Pow2(attempt))
  ELSE FallThrough

\* (variant) every error status is retried
isRetryableErrorAnyStatus(error) ==
  ~error.response \/ error.status >= 400

isRetryableError(error) ==
  \/ ~error.response
  \/ error.code \in {"ECONNABORTED", "ETIMEDOUT"}
  \/ error.response /\ error.status = 429
  \/ error.response /\ error.status >= 500

\* (variant) one retry fewer
SearchCatchOneFewer(error, attempt, limit) ==
  IF isRetryableError(error) /\ attempt < limit - 2
    THEN Sleep(SearchBaseDelay * Pow2(attempt))
    ELSE Break

\* (variant) a server error leaves the instance at once
SearchCatchServerErrorLeaves(error, attempt, limit) ==
  IF isRetryableError(error) /\ attempt < limit - 1
     /\ ~(error.response /\ error.status >= 500)
    THEN Sleep(SearchBaseDelay * Pow2(attempt))
    ELSE Break

\* the catch block of search: sleep and retry the instance, or leave its
\* retry loop (both break statements)
SearchCatch(error, attempt, limit) ==
  IF isRetryableError(error) /\ attempt < limit - 1
    THEN Sleep(SearchBaseDelay * Pow2(attempt))
    ELSE Break

\* getNextInstance: the instance selected and the index kept for the next call
getNextInstance(priority, index, n) ==
  IF priority
    THEN {[instance |-> index, index |-> (index + 1) % n]}
    ELSE {[instance |-> i, index |-> index] : i \in 0..(n - 1)}

\* (variant) the count of retries instead of the count of failed attempts
SearchFailureCountsRetries(query, total, last) ==
  [name |-> "SearchError", code |-> "SEARCH_ERROR",
   details |-> [query |-> query, totalRetries |-> Max(0, total - 1), lastError |-> last]]

\* the object search throws when every instance and retry has failed
SearchFailure(query, total, last) ==
  [name |-> "SearchError", code |-> "SEARCH_ERROR",
   details |-> [query |-> query, totalRetries |-> total, lastError |-> last]]

\* the object generate throws
LlmFailure(last) ==
  [name |-> "LLMError", code |-> "LLM_ERROR", details |-> [lastError |-> last]]

\* the Error executeScrape throws
ScrapeFailure(url, last) ==
  [name |-> "Error", code |-> "", details |-> [url |-> url, lastError |-> last]]

\* ------------------------------------------------------------ client actions
configOfClient == <<client, instanceCount, priorityOrder, maxRetries>>

ClientInit ==
  /\ PipelineAtRest
  /\ LimiterAtRest
  /\ StoreAtRest
  /\ QueryAtRest
  /\ ExecAtRest
  /\ ModelAtRest
  /\ ScoreAtRest
  /\ SearchLoopAtRest
  /\ FlowAtRest
  /\ client \in Clients
  /\ instanceCount \in (IF client = "search" THEN 1..MaxInstances ELSE {1})
  /\ priorityOrder \in (IF client = "search" THEN BOOLEAN ELSE {FALSE})
  /\ maxRetries \in (IF client = "search" THEN 0..MaxConfiguredRetries
                                          ELSE {DefaultMaxRetries})
  /\ currentInstanceIndex = 0
  /\ callCount = 0
  /\ callPc = "idle"
  /\ callQuery = NoValue
  /\ script = <<>>
  /\ exchanges = <<>>
  /\ instanceAttempt = 0
  /\ instanceUrl = 0
  /\ retry = 0
  /\ totalRetryCount = 0
  /\ lastError = <<>>
  /\ sleeps = <<>>
  /\ callResult = <<>>
  /\ callThrown = <<>>

\* a call begins: generate(prompt), executeScrape(url) or search(query)
ClientCall ==
  /\ callPc \in {"idle", "returned", "thrown"}
  /\ callCount < MaxCalls
  /\ \E s \in RemoteScripts, q \in CallQueries :
       /\ script' = s
       /\ callQuery' = q
  /\ callCount' = callCount + 1
  /\ callPc' = (IF client = "search" THEN "instance" ELSE "try")
  /\ exchanges' = <<>>
  /\ instanceAttempt' = 0
  /\ instanceUrl' = 0
  /\ retry' = 0
  /\ totalRetryCount' = 0
  /\ lastError' = <<>>
  /\ sleeps' = <<>>
  /\ callResult' = <<>>
  /\ callThrown' = <<>>
  /\ UNCHANGED <<configOfClient, currentInstanceIndex>>
  /\ UNCHANGED <<vars, limiterVars, storeVars, queryVars, execVars, modelVars, scoreVars, searchVars, flowVars>>

\* the exchange the call is about to make and the record kept of it
NextAnswer == AnswerOf(script, Len(exchanges) + 1)
Exchange(a) ==
  [selection |-> instanceAttempt, instance |-> instanceUrl, retry |-> retry, answer |-> a]

\* the head of search's instance loop (lines 41-45) and, when the loop is
\* over, the throw of lines 88-97
SearchInstance ==
  /\ client = "search"
  /\ callPc = "instance"
  /\ IF instanceAttempt < instanceCount
       THEN /\ \E sel \in getNextInstance(priorityOrder, currentInstanceIndex,
                                          instanceCount) :
                 /\ instanceUrl' = sel.instance
                 /\ currentInstanceIndex' = sel.index
            /\ retry' = 0
            /\ IF maxRetries > 0
                 THEN callPc' = "try" /\ UNCHANGED instanceAttempt
                 ELSE callPc' = "instance" /\ instanceAttempt' = instanceAttempt + 1
            /\ UNCHANGED callThrown
       ELSE /\ callPc' = "thrown"
            /\ callThrown' = <<SearchFailure(callQuery, totalRetryCount, lastError)>>
            /\ UNCHANGED <<instanceUrl, currentInstanceIndex, retry, instanceAttempt>>
  /\ UNCHANGED <<configOfClient, callCount, callQuery, script, exchanges,
                 totalRetryCount, lastError, sleeps, callResult>>
  /\ UNCHANGED <<vars, limiterVars, storeVars, queryVars, execVars, modelVars, scoreVars, searchVars, flowVars>>

\* one pass of search's retry loop: executeSearch and, if it throws, the
\* catch block up to its sleep or break (lines 46-84)
SearchTry ==
  /\ client = "search"
  /\ callPc = "try"
  /\ LET a == NextAnswer
         decision == SearchCatch(AnswerTable[a], retry, maxRetries)
     IN  /\ exchanges' = Append(exchanges, Exchange(a))
         /\ IF Succeeds(a)
              THEN /\ callResult' = <<a>>
                   /\ callPc' = "returned"
                   /\ UNCHANGED <<lastError, totalRetryCount, sleeps, instanceAttempt>>
              ELSE /\ lastError' = <<a>>
                   /\ totalRetryCount' = totalRetryCount + 1
                   /\ UNCHANGED callResult
                   /\ IF decision.do = "sleep"
                        THEN /\ sleeps' = Append(sleeps, [retry |-> retry,
                                                         ms |-> decision.ms,
                                                         after |-> a])
                             /\ callPc' = "sleep"
                             /\ UNCHANGED instanceAttempt
                        ELSE /\ callPc' = "instance"
                             /\ instanceAttempt' = instanceAttempt + 1
                             /\ UNCHANGED sleeps
  /\ UNCHANGED <<configOfClient, currentInstanceIndex, callCount, callQuery, script,
                 instanceUrl, retry, callThrown>>
  /\ UNCHANGED <<vars, limiterVars, storeVars, queryVars, execVars, modelVars, scoreVars, searchVars, flowVars>>

\* What a failed attempt of generate or executeScrape leads to: a sleep, the
\* next pass without one, or the throw after the loop.
AfterCatch(a, decision, failure) ==
  /\ lastError' = <<a>>
  /\ UNCHANGED callResult
  /\ IF decision.do = "sleep"
       THEN /\ sleeps' = Append(sleeps, [retry |-> retry, ms |-> decision.ms,
                                        after |-> a])
            /\ callPc' = "sleep"
            /\ UNCHANGED <<retry, callThrown>>
       ELSE IF decision.do = "next" /\ retry + 1 < maxRetries
         THEN /\ callPc' = "try"
              /\ retry' = retry + 1
              /\ UNCHANGED <<sleeps, callThrown>>
         ELSE /\ callPc' = "thrown"
              /\ callThrown' = <<failure>>
              /\ UNCHANGED <<sleeps, retry>>

\* one pass of generate's loop (lines 83-130) and the throw of lines 132-141
LlmTry ==
  /\ client = "llm"
  /\ callPc = "try"
  /\ LET a == NextAnswer
     IN  /\ exchanges' = Append(exchanges, Exchange(a))
         /\ IF Succeeds(a)
              THEN /\ callResult' = <<a>>
                   /\ callPc' = "returned"
                   /\ UNCHANGED <<lastError, sleeps, retry, callThrown>>
              ELSE AfterCatch(a, LlmCatch(AnswerTable[a], retry, maxRetries),
                              LlmFailure(<<a>>))
  /\ UNCHANGED <<configOfClient, currentInstanceIndex, callCount, callQuery, script,
                 instanceAttempt, instanceUrl, totalRetryCount>>
  /\ UNCHANGED <<vars, limiterVars, storeVars, queryVars, execVars, modelVars, scoreVars, searchVars, flowVars>>

\* one pass of executeScrape's loop (lines 48-100) and the throw of line 102
ScrapeTry ==
  /\ client = "scrape"
  /\ callPc = "try"
  /\ LET a == NextAnswer
     IN  /\ exchanges' = Append(exchanges, Exchange(a))
         /\ IF Succeeds(a)
              THEN /\ callResult' = <<a>>
                   /\ callPc' = "returned"
                   /\ UNCHANGED <<lastError, sleeps, retry, callThrown>>
              ELSE AfterCatch(a, ScrapeCatch(AnswerTable[a], retry, maxRetries),
                              ScrapeFailure(callQuery, <<a>>))
  /\ UNCHANGED <<configOfClient, currentInstanceIndex, callCount, callQuery, script,
                 instanceAttempt, instanceUrl, totalRetryCount>>
  /\ UNCHANGED <<vars, limiterVars, storeVars, queryVars, execVars, modelVars, scoreVars, searchVars, flowVars>>

\* the sleep before a retry is over: continue with the next pass
ClientWake ==
  /\ callPc = "sleep"
  /\ callPc' = "try"
  /\ retry' = retry + 1
  /\ UNCHANGED <<configOfClient, currentInstanceIndex, callCount, callQuery, script,
                 exchanges, instanceAttempt, instanceUrl, totalRetryCount, lastError,
                 sleeps, callResult, callThrown>>
  /\ UNCHANGED <<vars, limiterVars, storeVars, queryVars, execVars, modelVars, scoreVars, searchVars, flowVars>>

ClientNext ==
  \/ ClientCall
  \/ SearchInstance
  \/ SearchTry
  \/ LlmTry
  \/ ScrapeTry
  \/ ClientWake

ClientSpec == ClientInit /\ [][ClientNext]_allVars

ClientTypeOK ==
  /\ callPc \in {"idle", "instance", "try", "sleep", "returned", "thrown"}
  /\ retry \in 0..(MaxConfiguredRetries + 1)
  /\ instanceAttempt \in 0..(MaxInstances + 1)

\* ================================================================ RateLimiter
\* Time is counted in ticks.  sinceLast is Date.now() - lastExecutionTime and
\* is kept only up to MinInterval, beyond which process() does not look; a
\* process() call asleep is kept as the time it still has to sleep.

\* (variant) a unit that fails keeps its slot
ProcessingAfterLeak(count, ok) == IF ok THEN count - 1 ELSE count

\* finally: this.processing--
ProcessingAfter(count, ok) == count - 1

\* the guard of process(): the call returns without taking a unit
ProcessReturns(count, q, limit) == count >= limit \/ Len(q) = 0

\* the sleep process() takes before it admits a unit (0: none)
ProcessDelay(since) == IF since < MinInterval THEN MinInterval - since ELSE 0

\* lines 47-54: the head of the queue is taken and its fn() is called
Admit(q, count, run) ==
  LET item == Head(q)
  IN  /\ queue' = Tail(q)
      /\ processing' = count + 1
      /\ running' = run \cup {item}
      /\ startCount' = [startCount EXCEPT ![item] = @ + 1]
      /\ closest' = Min(closest, sinceLast)
      /\ sinceLast' = 0
      /\ peak' = Max(peak, Cardinality(run \cup {item}))

\* a call of process() up to its first await, on the queue, the count and the
\* running units its caller leaves
Process(q, count, run) ==
  IF ProcessReturns(count, q, maxConcurrent)
    THEN /\ queue' = q
         /\ processing' = count
         /\ running' = run
         /\ UNCHANGED <<sleepers, startCount, closest, sinceLast, peak>>
  ELSE IF ProcessDelay(sinceLast) > 0
    THEN /\ sleepers' = [sleepers EXCEPT ![ProcessDelay(sinceLast)] = @ + 1]
         /\ queue' = q
         /\ processing' = count
         /\ running' = run
         /\ UNCHANGED <<startCount, closest, sinceLast, peak>>
  ELSE /\ Admit(q, count, run)
       /\ UNCHANGED sleepers

LimiterInit ==
  /\ PipelineAtRest
  /\ ClientAtRest
  /\ StoreAtRest
  /\ QueryAtRest
  /\ ExecAtRest
  /\ ModelAtRest
  /\ ScoreAtRest
  /\ SearchLoopAtRest
  /\ FlowAtRest
  /\ maxConcurrent \in 1..MaxConcurrent
  /\ queue = <<>>
  /\ processing = 0
  /\ sinceLast = MinInterval
  /\ sleepers = [d \in 0..MinInterval |-> 0]
  /\ running = {}
  /\ added = 0
  /\ startCount = [u \in Units |-> 0]
  /\ settled = [u \in Units |-> <<>>]
  /\ outcomes = [u \in Units |-> <<>>]
  /\ closest = MinInterval
  /\ peak = 0

\* add(fn): the unit is queued and process() is called (lines 23-28)
LimiterAdd ==
  /\ added < MaxUnits
  /\ added' = added + 1
  /\ Process(Append(queue, added + 1), processing, running)
  /\ UNCHANGED <<maxConcurrent, settled, outcomes>>
  /\ UNCHANGED <<vars, clientVars, storeVars, queryVars, execVars, modelVars, scoreVars, searchVars, flowVars>>

\* a process() call's sleep is over (lines 44-54): it takes the head of the
\* queue, if there is one, without looking at the guard again
LimiterWake ==
  /\ sleepers[0] > 0
  /\ sleepers' = [sleepers EXCEPT ![0] = @ - 1]
  /\ IF queue = <<>>
       THEN UNCHANGED <<queue, processing, running, startCount, closest, sinceLast, peak>>
       ELSE Admit(queue, processing, running)
  /\ UNCHANGED <<maxConcurrent, added, settled, outcomes>>
  /\ UNCHANGED <<vars, clientVars, storeVars, queryVars, execVars, modelVars, scoreVars, searchVars, flowVars>>

\* the fn() of a running unit ends (lines 54-61): its promise is settled with
\* its outcome, the slot is given back and process() is called
Complete(u) ==
  /\ u \in running
  /\ \E ok \in BOOLEAN :
       /\ outcomes' = [outcomes EXCEPT ![u] = <<ok>>]
       /\ settled' = [settled EXCEPT
                        ![u] = Append(@, IF ok THEN "resolved" ELSE "rejected")]
       /\ Process(queue, ProcessingAfter(processing, ok), running \ {u})
  /\ UNCHANGED <<maxConcurrent, added>>
  /\ UNCHANGED <<vars, clientVars, storeVars, queryVars, execVars, modelVars, scoreVars, searchVars, flowVars>>

LimiterComplete == \E u \in Units : Complete(u)

\* a tick of the clock
LimiterTick ==
  /\ sinceLast < MinInterval \/ \E d \in 1..MinInterval : sleepers[d] > 0
  /\ sinceLast' = Min(sinceLast + 1, MinInterval)
  /\ sleepers' = [d \in 0..MinInterval |->
                    IF d = 0 THEN sleepers[0] + sleepers[1]
                    ELSE IF d < MinInterval THEN sleepers[d + 1]
                    ELSE 0]
  /\ UNCHANGED <<maxConcurrent, queue, processing, running, added, startCount, settled,
                 outcomes, closest, peak>>
  /\ UNCHANGED <<vars, clientVars, storeVars, queryVars, execVars, modelVars, scoreVars, searchVars, flowVars>>

LimiterNext ==
  \/ LimiterAdd
  \/ LimiterWake
  \/ LimiterComplete
  \/ LimiterTick

LimiterSpec == LimiterInit /\ [][LimiterNext]_allVars

\* Timers fire, the clock goes on and every unit's fn() ends.
LimiterFairSpec ==
  /\ LimiterSpec
  /\ WF_allVars(LimiterWake)
  /\ WF_allVars(LimiterTick)
  /\ \A u \in Units : WF_allVars(Complete(u))

LimiterTypeOK ==
  /\ processing \in 0..MaxUnits
  /\ sinceLast \in 0..MinInterval
  /\ running \subseteq Units

\* ====================================================================== Cache
\* The two partitions of the SQLite store with their time stamps.  A row is
\* <<>> (absent) or <<[value, at]>>.

\* the values written
CacheValues == {"", "page: mit solar lab"}

\* the prompts and models of the LLM partition
CachePrompts == {<<"hello", "m">>, <<"free:hello", "m">>, <<"hello", "m:free">>}

\* the text hashPrompt digests: `${model}:${prompt}` (the digest itself is
\* taken to be free of collisions)
hashPrompt(prompt, model) == model \o ":" \o prompt

PromptHashes == {hashPrompt(p[1], p[2]) : p \in CachePrompts}

\* (variant) a row is stale as soon as its age reaches the duration
ExpiredAtDuration(at, t) == t - at >= CacheDuration

\* age > this.cacheDuration
Expired(at, t) == t - at > CacheDuration

\* what get and getCachedLLM return for a key of their table
ReadRow(table, key, t) ==
  IF table[key] = <<>> THEN <<>>
  ELSE IF Expired(table[key][1].at, t) THEN <<>>
  ELSE <<table[key][1].value>>

\* the table after get and getCachedLLM: a stale row is deleted
EvictOnRead(table, key, t) ==
  IF table[key] # <<>> /\ Expired(table[key][1].at, t)
    THEN [table EXCEPT ![key] = <<>>]
    ELSE table

\* INSERT OR REPLACE with the time of the write
WriteRow(table, key, value, t) ==
  [table EXCEPT ![key] = <<[value |-> value, at |-> t]>>]

\* cleanup: DELETE ... WHERE scraped_at < cutoff
Sweep(table, t) ==
  [k \in DOMAIN table |->
     IF table[k] # <<>> /\ table[k][1].at < t - CacheDuration THEN <<>> ELSE table[k]]

\* the guard of every operation
CacheOn == enabled /\ db

\* the operations of the Cache that callers use
CacheOps == {"get", "set", "has", "clear", "cacheLLM", "getCachedLLM"}

\* (variant) clear runs its DELETEs outside a try block
TryBlocksWithoutClear == {"get", "set", "cacheLLM", "getCachedLLM"}

\* the operations whose database calls are inside try { } catch { warn }
TryBlocks == {"get", "set", "clear", "cacheLLM", "getCachedLLM"}

\* the method whose body touches the database for an operation: has calls get
BodyOf(op) == IF op = "has" THEN "get" ELSE op

\* an exception of the storage layer leaves the operation when no try block
\* is around the database call
Raises(op, fault) == fault /\ BodyOf(op) \notin TryBlocks

\* what the storage layer can do when an operation reaches it: answer (FALSE)
\* or throw (TRUE); a guarded-out operation never reaches it
StorageFaults == IF CacheOn THEN BOOLEAN ELSE {FALSE}

\* the ghost record of an operation that met a closed guard or a failure of
\* the storage layer (an operation that met neither leaves no record)
OpRecord(op, fault, answer, wrote) ==
  IF CacheOn /\ ~fault THEN <<>>
  ELSE <<[op |-> op, fault |-> fault, raised |-> Raises(op, fault), answer |-> answer,
          wrote |-> wrote]>>

\* The constructor: the cache is disabled; enabled with its database open;
\* enabled without a database (no storagePath); or, when initializeDatabase
\* failed after opening the file, disabled with a database.
StoreInit ==
  /\ PipelineAtRest
  /\ ClientAtRest
  /\ LimiterAtRest
  /\ QueryAtRest
  /\ ExecAtRest
  /\ ModelAtRest
  /\ ScoreAtRest
  /\ SearchLoopAtRest
  /\ FlowAtRest
  /\ enabled \in BOOLEAN
  /\ db \in BOOLEAN
  /\ now = 0
  /\ search_cache = [k \in Urls |-> <<>>]
  /\ llm_cache = [h \in PromptHashes |-> <<>>]
  /\ lastWrite = <<>>
  /\ lastRead = <<>>
  /\ lastOp = <<>>

\* set(key, value)
StoreSet ==
  \E key \in Urls, value \in CacheValues, fault \in StorageFaults :
    /\ search_cache' = (IF CacheOn /\ ~fault THEN WriteRow(search_cache, key, value, now)
                                             ELSE search_cache)
    /\ lastWrite' = (IF fault \/ ~CacheOn THEN <<>>
                     ELSE <<[partition |-> "url", key |-> <<key>>, value |-> value,
                             at |-> now]>>)
    /\ lastRead' = <<>>
    /\ lastOp' = OpRecord("set", fault, <<>>, search_cache' # search_cache)
    /\ UNCHANGED <<enabled, db, now, llm_cache>>
    /\ UNCHANGED <<vars, clientVars, limiterVars, queryVars, execVars, modelVars, scoreVars, searchVars, flowVars>>

\* get(key)
StoreGet ==
  \E key \in Urls, fault \in StorageFaults :
    LET answer == IF CacheOn /\ ~fault THEN ReadRow(search_cache, key, now) ELSE <<>>
    IN  /\ search_cache' = (IF CacheOn /\ ~fault THEN EvictOnRead(search_cache, key, now)
                                                 ELSE search_cache)
        /\ lastRead' = (IF fault \/ ~CacheOn THEN <<>>
                        ELSE <<[partition |-> "url", key |-> <<key>>, at |-> now,
                                found |-> search_cache[key], answer |-> answer]>>)
        /\ lastOp' = OpRecord("get", fault, answer, FALSE)
        /\ UNCHANGED <<enabled, db, now, llm_cache, lastWrite>>
        /\ UNCHANGED <<vars, clientVars, limiterVars, queryVars, execVars, modelVars, scoreVars, searchVars, flowVars>>

\* has(key): get(key) !== null
StoreHas ==
  \E key \in Urls, fault \in StorageFaults :
    LET value == IF CacheOn /\ ~fault THEN ReadRow(search_cache, key, now) ELSE <<>>
    IN  /\ search_cache' = (IF CacheOn /\ ~fault THEN EvictOnRead(search_cache, key, now)
                                                 ELSE search_cache)
        /\ lastRead' = <<>>
        /\ lastOp' = OpRecord("has", fault, IF value # <<>> THEN <<TRUE>> ELSE <<>>, FALSE)
        /\ UNCHANGED <<enabled, db, now, llm_cache, lastWrite>>
        /\ UNCHANGED <<vars, clientVars, limiterVars, queryVars, execVars, modelVars, scoreVars, searchVars, flowVars>>

\* clear(): one exec of DELETE FROM search_cache; DELETE FROM llm_cache; ...
\* When the storage layer throws, the statements before the failing one have
\* run: none, or the first.
StoreClear ==
  \E fault \in StorageFaults, done \in 0..1 :
    /\ fault \/ done = 0
    /\ search_cache' = (IF CacheOn /\ (~fault \/ done >= 1)
                          THEN [k \in DOMAIN search_cache |-> <<>>] ELSE search_cache)
    /\ llm_cache' = (IF CacheOn /\ ~fault
                       THEN [h \in DOMAIN llm_cache |-> <<>>] ELSE llm_cache)
    /\ lastWrite' = <<>>
    /\ lastRead' = <<>>
    /\ lastOp' = OpRecord("clear", fault, <<>>,
                          search_cache' # search_cache \/ llm_cache' # llm_cache)
    /\ UNCHANGED <<enabled, db, now>>
    /\ UNCHANGED <<vars, clientVars, limiterVars, queryVars, execVars, modelVars, scoreVars, searchVars, flowVars>>

\* cacheLLM(prompt, model, response)
StoreCacheLLM ==
  \E p \in CachePrompts, value \in CacheValues, fault \in StorageFaults :
    /\ llm_cache' = (IF CacheOn /\ ~fault
                       THEN WriteRow(llm_cache, hashPrompt(p[1], p[2]), value, now)
                       ELSE llm_cache)
    /\ lastWrite' = (IF fault \/ ~CacheOn THEN <<>>
                     ELSE <<[partition |-> "llm", key |-> p, value |-> value, at |-> now]>>)
    /\ lastRead' = <<>>
    /\ lastOp' = OpRecord("cacheLLM", fault, <<>>, llm_cache' # llm_cache)
    /\ UNCHANGED <<enabled, db, now, search_cache>>
    /\ UNCHANGED <<vars, clientVars, limiterVars, queryVars, execVars, modelVars, scoreVars, searchVars, flowVars>>

\* getCachedLLM(prompt, model)
StoreGetCachedLLM ==
  \E p \in CachePrompts, fault \in StorageFaults :
    LET hash == hashPrompt(p[1], p[2])
        answer == IF CacheOn /\ ~fault THEN ReadRow(llm_cache, hash, now) ELSE <<>>
    IN  /\ llm_cache' = (IF CacheOn /\ ~fault THEN EvictOnRead(llm_cache, hash, now)
                                              ELSE llm_cache)
        /\ lastRead' = (IF fault \/ ~CacheOn THEN <<>>
                        ELSE <<[partition |-> "llm", key |-> p, at |-> now,
                                found |-> llm_cache[hash], answer |-> answer]>>)
        /\ lastOp' = OpRecord("getCachedLLM", fault, answer, FALSE)
        /\ UNCHANGED <<enabled, db, now, search_cache, lastWrite>>
        /\ UNCHANGED <<vars, clientVars, limiterVars, queryVars, execVars, modelVars, scoreVars, searchVars, flowVars>>

\* close(): the database is closed and forgotten
StoreClose ==
  /\ db
  /\ db' = FALSE
  /\ lastRead' = <<>>
  /\ lastOp' = <<>>
  /\ lastWrite' = <<>>
  /\ UNCHANGED <<enabled, now, search_cache, llm_cache>>
  /\ UNCHANGED <<vars, clientVars, limiterVars, queryVars, execVars, modelVars, scoreVars, searchVars, flowVars>>

\* another Cache is constructed on the same file: its constructor sweeps the
\* rows that are stale
StoreCleanup ==
  /\ CacheOn
  /\ search_cache' = Sweep(search_cache, now)
  /\ llm_cache' = Sweep(llm_cache, now)
  /\ lastRead' = <<>>
  /\ lastOp' = <<>>
  /\ UNCHANGED <<enabled, db, now, lastWrite>>
  /\ UNCHANGED <<vars, clientVars, limiterVars, queryVars, execVars, modelVars, scoreVars, searchVars, flowVars>>

\* a tick of the clock
StoreTick ==
  /\ now < MaxClock
  /\ now' = now + 1
  /\ lastRead' = <<>>
  /\ lastOp' = <<>>
  /\ UNCHANGED <<enabled, db, search_cache, llm_cache, lastWrite>>
  /\ UNCHANGED <<vars, clientVars, limiterVars, queryVars, execVars, modelVars, scoreVars, searchVars, flowVars>>

StoreNext ==
  \/ StoreSet
  \/ StoreGet
  \/ StoreHas
  \/ StoreClear
  \/ StoreCacheLLM
  \/ StoreGetCachedLLM
  \/ StoreClose
  \/ StoreCleanup
  \/ StoreTick

StoreSpec == StoreInit /\ [][StoreNext]_allVars

StoreTypeOK ==
  /\ now \in 0..MaxClock
  /\ Len(lastRead) <= 1
  /\ Len(lastWrite) <= 1
  /\ Len(lastOp) <= 1

\* ===================================================== the initial queries
\* Lines 79-91 of Pipeline.execute on their own: the planner's candidates,
\* the validity filter and the slice.

\* most words of a query
MaxWords == 5

\* the words the queries under validation are made of
QueryWords == {"how", "much", "a", "ab", "?!", LongWord}

\* every query of one to MaxWords of these words
WordQueries == UNION { [1..n -> QueryWords] : n \in 1..MaxWords }

\* the queries the candidate lists are made of: two that validateQuery
\* accepts and one that it rejects
ListQueries == {GoodQueries[1], GoodQueries[2], <<"how", "much">>}

\* what the planner can answer: one query of WordQueries, or a list of up to
\* MaxPlanQueries of the ListQueries
CandidateLists ==
  { <<q>> : q \in WordQueries } \cup
  UNION { [1..n -> ListQueries] : n \in 0..MaxPlanQueries }

QueryInit ==
  /\ PipelineAtRest
  /\ ClientAtRest
  /\ LimiterAtRest
  /\ StoreAtRest
  /\ ExecAtRest
  /\ ModelAtRest
  /\ ScoreAtRest
  /\ SearchLoopAtRest
  /\ FlowAtRest
  /\ planned \in CandidateLists
  /\ planDepth \in ResearchDepth
  /\ planPc = "planned"
  /\ verdicts = <<>>
  /\ planInitial = <<>>

\* the callback of the filter, lines 82-89, on every candidate
QueryValidate ==
  /\ planPc = "planned"
  /\ verdicts' = [i \in DOMAIN planned |-> validateQuery(planned[i])]
  /\ planPc' = "validated"
  /\ UNCHANGED <<planned, planDepth, planInitial>>
  /\ UNCHANGED <<vars, clientVars, limiterVars, storeVars, execVars, modelVars, scoreVars, searchVars, flowVars>>

\* the filter's result and the slice, line 91
QuerySlice ==
  /\ planPc = "validated"
  /\ planInitial' = InitialQueriesOf(planned, planDepth)
  /\ planPc' = "sliced"
  /\ UNCHANGED <<planned, planDepth, verdicts>>
  /\ UNCHANGED <<vars, clientVars, limiterVars, storeVars, execVars, modelVars, scoreVars, searchVars, flowVars>>

QueryNext ==
  \/ QueryValidate
  \/ QuerySlice

QuerySpec == QueryInit /\ [][QueryNext]_allVars

QueryTypeOK ==
  /\ planPc \in {"idle", "planned", "validated", "sliced"}
  /\ Len(verdicts) <= Len(planned)
  /\ Len(planInitial) <= Len(planned)


\* ================================= execute calls on one Pipeline instance
\* What execute and its helpers do with the two fields of the instance that
\* hold session state, this.seenUrls and this.costEstimator.  The calls
\* interleave at their awaits: between two steps of a call the other calls run.

\* most execute calls made on the instance
MaxExecutes == 2
\* most generate calls of one call that return
MaxGenerates == 1

Executes == 1..MaxExecutes

\* (variant) execute leaves the seen-URL set as it finds it
SeenAtStartKept(seen) == seen

\* this.seenUrls.clear()
SeenAtStart(seen) == {}

\* new CostEstimator(enableCostTracking)
NewCostEstimator(flag) == [enabled |-> flag, usageLog |-> <<>>]

\* MODEL_PRICING, in billionths of a dollar per token (the source gives
\* dollars per million tokens); a model without an entry costs nothing
MODEL_PRICING(model) ==
  CASE model = "meta-llama/llama-3.1-8b-instruct" -> [prompt |-> 20, completion |-> 30]
    [] model = "deepseek/deepseek-chat" -> [prompt |-> 300, completion |-> 1200]
    [] OTHER -> [prompt |-> 0, completion |-> 0]

\* CostEstimator.calculateCost, in billionths of a dollar
calculateCost(model, promptTokens, completionTokens) ==
  (promptTokens * MODEL_PRICING(model).prompt)
    + (completionTokens * MODEL_PRICING(model).completion)

\* the usage one llm.generate of call c reports
UsageEntry(c) ==
  [call |-> c, model |-> "meta-llama/llama-3.1-8b-instruct",
   promptTokens |-> 100, completionTokens |-> 50]

\* logUsage without the guard on enabled
logUsageAlways(estimator, entry) ==
  [estimator EXCEPT !.usageLog = Append(@, entry)]

\* CostEstimator.logUsage
logUsage(estimator, entry) ==
  IF ~estimator.enabled THEN estimator
  ELSE [estimator EXCEPT !.usageLog = Append(@, entry)]

RECURSIVE SumTokens(_)
SumTokens(log) ==
  IF log = <<>> THEN 0
  ELSE log[1].promptTokens + log[1].completionTokens + SumTokens(Tail(log))

RECURSIVE SumCost(_)
SumCost(log) ==
  IF log = <<>> THEN 0
  ELSE calculateCost(log[1].model, log[1].promptTokens, log[1].completionTokens)
         + SumCost(Tail(log))

\* the undefined a getBreakdown returns, as a record so that it compares with
\* a breakdown
NoBreakdown == [undefined |-> TRUE]

\* CostEstimator.getBreakdown: undefined when disabled or empty
getBreakdown(estimator) ==
  IF ~estimator.enabled \/ Len(estimator.usageLog) = 0 THEN NoBreakdown
  ELSE [totalTokens |-> SumTokens(estimator.usageLog),
        estimatedCost |-> SumCost(estimator.usageLog),
        breakdown |-> estimator.usageLog]

\* CostEstimator.getTotalCost: breakdown?.estimatedCost ?? 0
getTotalCost(estimator) ==
  IF getBreakdown(estimator) = NoBreakdown THEN 0
  ELSE getBreakdown(estimator).estimatedCost

\* CostEstimator.getTotalTokens: breakdown?.totalTokens ?? 0
getTotalTokens(estimator) ==
  IF getBreakdown(estimator) = NoBreakdown THEN 0
  ELSE getBreakdown(estimator).totalTokens

\* a breakdown as a call sees it: whether it is defined, how many of its
\* entries the call logged, how many other calls logged
EntriesOf(breakdown, c) ==
  IF breakdown = NoBreakdown THEN [defined |-> FALSE, own |-> 0, foreign |-> 0]
  ELSE [defined |-> TRUE,
        own |-> Cardinality({i \in DOMAIN breakdown.breakdown :
                               breakdown.breakdown[i].call = c}),
        foreign |-> Cardinality({i \in DOMAIN breakdown.breakdown :
                                   breakdown.breakdown[i].call # c})]

ExecInit ==
  /\ PipelineAtRest
  /\ ClientAtRest
  /\ LimiterAtRest
  /\ StoreAtRest
  /\ QueryAtRest
  /\ ModelAtRest
  /\ ScoreAtRest
  /\ SearchLoopAtRest
  /\ FlowAtRest
  /\ execPc = [c \in Executes |-> "idle"]
  /\ thisSeenUrls = {}
  /\ thisCostEstimator = NewCostEstimator(FALSE)
  /\ costTracking = [c \in Executes |-> FALSE]
  /\ ownUrls = [c \in Executes |-> {}]
  /\ misflagged = [c \in Executes |-> FALSE]
  /\ generated = [c \in Executes |-> 0]
  /\ costs = [c \in Executes |-> <<>>]
  /\ shrunk = [c \in Executes |-> FALSE]
  /\ overlapped = [c \in Executes |-> FALSE]

\* the calls that are between their first line and their return
ExecRunning(c) == execPc[c] = "running"

\* execute, lines 50-73: the options and the reset of the two fields
ExecBegin(c) ==
  /\ execPc[c] = "idle"
  /\ \A b \in Executes : b < c => execPc[b] # "idle"
  /\ \E flag \in BOOLEAN :
       /\ costTracking' = [costTracking EXCEPT ![c] = flag]
       /\ thisCostEstimator' = NewCostEstimator(flag)
  /\ thisSeenUrls' = SeenAtStart(thisSeenUrls)
  /\ execPc' = [execPc EXCEPT ![c] = "running"]
  /\ shrunk' = [b \in Executes |->
                  shrunk[b] \/ (ExecRunning(b) /\ ~(thisSeenUrls \subseteq thisSeenUrls'))]
  /\ overlapped' = [b \in Executes |->
                      IF b = c THEN \E a \in Executes : ExecRunning(a)
                      ELSE overlapped[b] \/ ExecRunning(b)]
  /\ UNCHANGED <<ownUrls, misflagged, generated, costs>>
  /\ UNCHANGED <<vars, clientVars, limiterVars, storeVars, queryVars, modelVars, scoreVars, searchVars, flowVars>>

\* scrapeResults, lines 283-287, for one result: the duplicate flag and the
\* add; the await of the cache read follows
ExecScrapeOne(c) ==
  /\ ExecRunning(c)
  /\ \E url \in Urls :
       /\ misflagged' = [misflagged EXCEPT
                           ![c] = @ \/ (IsDuplicate(thisSeenUrls, url) # (url \in ownUrls[c]))]
       /\ ownUrls' = [ownUrls EXCEPT ![c] = @ \cup {url}]
       /\ thisSeenUrls' = thisSeenUrls \cup {url}
  /\ UNCHANGED <<execPc, thisCostEstimator, costTracking, generated, costs, shrunk,
                 overlapped>>
  /\ UNCHANGED <<vars, clientVars, limiterVars, storeVars, queryVars, modelVars, scoreVars, searchVars, flowVars>>

\* generateWithCache, lines 467-471: llm.generate has returned and the call
\* logs its usage on the estimator the field holds now
ExecGenerate(c) ==
  /\ ExecRunning(c)
  /\ generated[c] < MaxGenerates
  /\ generated' = [generated EXCEPT ![c] = @ + 1]
  /\ thisCostEstimator' = logUsage(thisCostEstimator, UsageEntry(c))
  /\ UNCHANGED <<execPc, thisSeenUrls, costTracking, ownUrls, misflagged, costs, shrunk,
                 overlapped>>
  /\ UNCHANGED <<vars, clientVars, limiterVars, storeVars, queryVars, modelVars, scoreVars, searchVars, flowVars>>

\* the return of execute, lines 177-190 and 211-224: costs is
\* this.costEstimator.getBreakdown()
ExecReturn(c) ==
  /\ ExecRunning(c)
  /\ costs' = [costs EXCEPT ![c] = <<EntriesOf(getBreakdown(thisCostEstimator), c)>>]
  /\ execPc' = [execPc EXCEPT ![c] = "done"]
  /\ UNCHANGED <<thisSeenUrls, thisCostEstimator, costTracking, ownUrls, misflagged,
                 generated, shrunk, overlapped>>
  /\ UNCHANGED <<vars, clientVars, limiterVars, storeVars, queryVars, modelVars, scoreVars, searchVars, flowVars>>

ExecNext ==
  \E c \in Executes :
    \/ ExecBegin(c)
    \/ ExecScrapeOne(c)
    \/ ExecGenerate(c)
    \/ ExecReturn(c)

ExecSpec == ExecInit /\ [][ExecNext]_allVars

ExecTypeOK ==
  /\ \A c \in Executes :
       /\ execPc[c] \in {"idle", "running", "done"}
       /\ ownUrls[c] \subseteq Urls
       /\ generated[c] <= MaxGenerates
       /\ Len(costs[c]) <= 1
  /\ thisSeenUrls \subseteq Urls


\* ========================================================= model selection
\* Pipeline.getModelForAgent over the ModelConfig the Pipeline was built with.

ModelTier == {"small", "medium", "large"}
AgentType == {"planner", "parser", "summarizer", "evaluator", "filter", "reporter"}

DEFAULT_MODELS ==
  [small |-> "meta-llama/llama-3.1-8b-instruct",
   medium |-> "google/gemini-2.5-flash-preview-09-2025",
   large |-> "deepseek/deepseek-chat"]

DEFAULT_AGENT_TIERS ==
  [planner |-> "medium", parser |-> "small", summarizer |-> "small",
   evaluator |-> "medium", filter |-> "small", reporter |-> "large"]

\* a value counts in an "if" and on the left of "||" unless it is undefined
\* (NoValue) or the empty string
Truthy(v) == v # NoValue /\ v # ""

\* (variant) the tier override is looked up before the agent's model id
getModelForAgentTierFirst(config, agent) ==
  LET tier == IF Truthy(config.tiers[agent]) THEN config.tiers[agent]
              ELSE DEFAULT_AGENT_TIERS[agent]
  IN  IF Truthy(config.tierModels[tier]) THEN config.tierModels[tier]
      ELSE IF Truthy(config.customModels[agent]) THEN config.customModels[agent]
      ELSE DEFAULT_MODELS[tier]

getModelForAgent(config, agent) ==
  IF Truthy(config.customModels[agent]) THEN config.customModels[agent]
  ELSE LET tier == IF Truthy(config.tiers[agent]) THEN config.tiers[agent]
                   ELSE DEFAULT_AGENT_TIERS[agent]
       IN  IF Truthy(config.tierModels[tier]) THEN config.tierModels[tier]
           ELSE DEFAULT_MODELS[tier]

\* what a ModelConfig can hold for an agent's model id and for a tier's model
\* id: nothing, the empty string, an id
CustomIds == {NoValue, "", "openai/gpt-4o-mini"}
TierIds == {NoValue, "", "qwen/qwen-2.5-72b-instruct"}

\* The configurations: any entry for the agent in customModels and in tiers,
\* any tierModels; the other agents have no entry, or all the same model id
\* and tier.
ModelConfigs(agent) ==
  { [customModels |-> [a \in AgentType |-> IF a = agent THEN c ELSE oc],
     tiers |-> [a \in AgentType |-> IF a = agent THEN t ELSE ot],
     tierModels |-> tm] :
      c \in CustomIds, oc \in {NoValue, "deepseek/deepseek-reasoner"},
      t \in ModelTier \cup {NoValue}, ot \in {NoValue, "large"},
      tm \in [ModelTier -> TierIds] }

ModelInit ==
  /\ PipelineAtRest
  /\ ClientAtRest
  /\ LimiterAtRest
  /\ StoreAtRest
  /\ QueryAtRest
  /\ ExecAtRest
  /\ ScoreAtRest
  /\ SearchLoopAtRest
  /\ FlowAtRest
  /\ agentType \in AgentType
  /\ modelConfig \in ModelConfigs(agentType)
  /\ chosenModel = <<>>

\* a step asks for its model
ModelChoose ==
  /\ chosenModel = <<>>
  /\ chosenModel' = <<getModelForAgent(modelConfig, agentType)>>
  /\ UNCHANGED <<modelConfig, agentType>>
  /\ UNCHANGED <<vars, clientVars, limiterVars, storeVars, queryVars, execVars, scoreVars, searchVars, flowVars>>

ModelNext == ModelChoose

ModelSpec == ModelInit /\ [][ModelNext]_allVars


\* ============================================================ scoreContent
\* QualityScorer.scoreContent applied to one (title, url, content).

ScoreTitles == {"", "Solar lab"}

ScoreInit ==
  /\ PipelineAtRest
  /\ ClientAtRest
  /\ LimiterAtRest
  /\ StoreAtRest
  /\ QueryAtRest
  /\ ExecAtRest
  /\ ModelAtRest
  /\ SearchLoopAtRest
  /\ FlowAtRest
  /\ scoreTitle \in ScoreTitles
  /\ scoreUrl \in DOMAIN UrlTable
  /\ scoreBody \in DOMAIN TextTable
  /\ scorePc = "input"
  /\ scoreResult = <<>>

\* the call of scoreContent
ScoreApply ==
  /\ scorePc = "input"
  /\ scoreResult' = <<scoreContent(scoreTitle, scoreUrl, scoreBody)>>
  /\ scorePc' = "scored"
  /\ UNCHANGED <<scoreTitle, scoreUrl, scoreBody>>
  /\ UNCHANGED <<vars, clientVars, limiterVars, storeVars, queryVars, execVars, modelVars, searchVars, flowVars>>

ScoreNext == ScoreApply

ScoreSpec == ScoreInit /\ [][ScoreNext]_allVars


\* ========================================================= executeSearches
\* Pipeline.executeSearches, lines 252-274, at the grain of its awaits.

\* most queries one call is given
MaxRoundQueries == 3

\* the delay between two searches, in ms
SearchPacingDelay == 2000

\* (variant) no delay between searches
DelayFollowsNever(i, n) == FALSE

\* line 261: a delay follows search i of n unless it is the last
DelayFollows(i, n) == i < n - 1

RECURSIVE Flat(_)
Flat(lists) == IF lists = <<>> THEN <<>> ELSE Head(lists) \o Flat(Tail(lists))

SearchLoopInit ==
  /\ PipelineAtRest
  /\ ClientAtRest
  /\ LimiterAtRest
  /\ StoreAtRest
  /\ QueryAtRest
  /\ ExecAtRest
  /\ ModelAtRest
  /\ ScoreAtRest
  /\ FlowAtRest
  /\ searchQueries \in {MkQueries(n, {}) : n \in 1..MaxRoundQueries}
  /\ loopI = 0
  /\ searchPc = "send"
  /\ inFlight = {}
  /\ allResults = <<>>
  /\ searchLog = <<>>
  /\ mergedResults = <<>>

\* line 257, up to the await: search.search(queries[i], limitPerQuery) is called
SearchSend ==
  /\ searchPc = "send"
  /\ loopI < Len(searchQueries)
  /\ inFlight' = inFlight \cup {loopI}
  /\ searchLog' = Append(searchLog, [event |-> "search", query |-> searchQueries[loopI + 1]])
  /\ searchPc' = "await"
  /\ UNCHANGED <<searchQueries, loopI, allResults, mergedResults>>
  /\ UNCHANGED <<vars, clientVars, limiterVars, storeVars, queryVars, execVars, modelVars,
                 scoreVars, flowVars>>

\* lines 257-263: the search settles; a rejection leaves executeSearches, an
\* answer is pushed and the loop sleeps or goes on
SearchSettle ==
  /\ searchPc = "await"
  /\ inFlight' = inFlight \ {loopI}
  /\ \/ /\ searchPc' = "thrown"
        /\ searchLog' = Append(searchLog, [event |-> "rejected", query |-> searchQueries[loopI + 1]])
        /\ UNCHANGED <<loopI, allResults>>
     \/ \E answer \in SearchAnswers :
          /\ allResults' = Append(allResults, answer)
          /\ searchLog' = Append(searchLog, [event |-> "returned", query |-> searchQueries[loopI + 1]])
          /\ IF DelayFollows(loopI, Len(searchQueries))
               THEN searchPc' = "sleep" /\ loopI' = loopI
               ELSE /\ loopI' = loopI + 1
                    /\ searchPc' = (IF loopI + 1 < Len(searchQueries) THEN "send" ELSE "merge")
  /\ UNCHANGED <<searchQueries, mergedResults>>
  /\ UNCHANGED <<vars, clientVars, limiterVars, storeVars, queryVars, execVars, modelVars,
                 scoreVars, flowVars>>

\* line 262: the sleep is over
SearchSleep ==
  /\ searchPc = "sleep"
  /\ searchLog' = Append(searchLog, [event |-> "delay", ms |-> SearchPacingDelay])
  /\ loopI' = loopI + 1
  /\ searchPc' = (IF loopI + 1 < Len(searchQueries) THEN "send" ELSE "merge")
  /\ UNCHANGED <<searchQueries, inFlight, allResults, mergedResults>>
  /\ UNCHANGED <<vars, clientVars, limiterVars, storeVars, queryVars, execVars, modelVars,
                 scoreVars, flowVars>>

\* lines 266-273: the answers are merged by URL and returned; the caller's
\* next step is the scrape
SearchMerge ==
  /\ searchPc = "merge"
  /\ mergedResults' = <<MergeByUrl(<<>>, Flat(allResults))>>
  /\ searchPc' = "returned"
  /\ UNCHANGED <<searchQueries, loopI, inFlight, allResults, searchLog>>
  /\ UNCHANGED <<vars, clientVars, limiterVars, storeVars, queryVars, execVars, modelVars,
                 scoreVars, flowVars>>

SearchLoopNext ==
  \/ SearchSend
  \/ SearchSettle
  \/ SearchSleep
  \/ SearchMerge

SearchLoopSpec == SearchLoopInit /\ [][SearchLoopNext]_allVars


\* ============================================== execute over the client calls
\* The control flow of Pipeline.execute (lines 75-229) with every external
\* call made through the clients' retry loops of the section above: what a
\* call answers decides only whether the step goes on or throws.  The scrapes
\* of a round, which scrapeMany starts together, are taken one after another.

\* most searches, and most items, of a round
MaxStepCalls == 2

\* (variant) the loop test never fails
LoopContinuesAlways(r, d) == TRUE

\* line 95: round < depthConfig.maxRounds
LoopContinues(r, d) == r < DEPTH_CONFIGS[d].maxRounds

\* the client a step calls
ClientOfStep(step) ==
  CASE step = "search" -> "search"
    [] step = "scrape" -> "scrape"
    [] OTHER -> "llm"

FlowRunning ==
  flowPc \in {"plan", "round", "evaluate", "search", "scrape", "summarize", "rank",
              "report", "partial"}

FlowInit ==
  /\ PipelineAtRest
  /\ ClientAtRest
  /\ LimiterAtRest
  /\ StoreAtRest
  /\ QueryAtRest
  /\ ExecAtRest
  /\ ModelAtRest
  /\ ScoreAtRest
  /\ SearchLoopAtRest
  /\ flowPc = "idle"
  /\ flowDepth = "normal"
  /\ flowAllowPartial = TRUE
  /\ flowRound = 0
  /\ flowIterations = 0
  /\ flowContent = FALSE
  /\ flowItems = 0
  /\ flowLeft = 0
  /\ flowCalling = FALSE
  /\ searchConfig \in [instances : 1..MaxInstances, maxRetries : 0..MaxConfiguredRetries]

\* execute is called
FlowExecute ==
  /\ flowPc = "idle"
  /\ flowDepth' \in ResearchDepth
  /\ flowAllowPartial' \in BOOLEAN
  /\ \/ flowPc' = "plan" /\ flowLeft' = 1
     \/ flowPc' = "thrown" /\ flowLeft' = 0
  /\ UNCHANGED <<flowRound, flowIterations, flowContent, flowItems, flowCalling, searchConfig>>
  /\ UNCHANGED <<vars, clientVars, limiterVars, storeVars, queryVars, execVars, modelVars,
                 scoreVars, searchVars>>

\* the catch block, lines 192-229, up to its report attempt
FlowCatch ==
  IF flowAllowPartial /\ flowContent
    THEN flowPc' = "partial" /\ flowLeft' = 1
    ELSE flowPc' = "thrown" /\ flowLeft' = 0

\* execute comes to a step that begins with checkCancellation: it enters the
\* step, which has one of lefts calls to make, or finds the signal set
FlowEnter(step, lefts) ==
  \/ flowPc' = step /\ flowLeft' \in lefts
  \/ FlowCatch

\* where a step that has made its calls goes on to
FlowGoOn ==
  CASE flowPc = "plan" ->
         /\ FlowEnter("round", {0})
         /\ UNCHANGED <<flowRound, flowContent, flowItems>>
    [] flowPc = "evaluate" ->
         \* lines 114-127: goal met or no follow-up ends the loop
         /\ \/ FlowEnter("rank", {1})
            \/ FlowEnter("search", 1..MaxStepCalls)
         /\ UNCHANGED <<flowRound, flowContent, flowItems>>
    [] flowPc = "search" ->
         /\ flowItems' \in 0..MaxStepCalls
         /\ FlowEnter("scrape", 0..flowItems')
         /\ UNCHANGED <<flowRound, flowContent>>
    [] flowPc = "scrape" ->
         /\ flowContent' = (flowContent \/ flowItems > 0)
         /\ IF flowAllowPartial /\ flowContent'
              THEN \/ flowPc' = "summarize" /\ flowLeft' = flowItems
                   \/ flowPc' = "partial" /\ flowLeft' = 1
              ELSE \/ flowPc' = "summarize" /\ flowLeft' = flowItems
                   \/ flowPc' = "thrown" /\ flowLeft' = 0
         /\ UNCHANGED <<flowRound, flowItems>>
    [] flowPc = "summarize" ->
         /\ flowRound' = flowRound + 1
         /\ IF LoopContinues(flowRound + 1, flowDepth)
              THEN FlowEnter("round", {0})
              ELSE FlowEnter("rank", {1})
         /\ UNCHANGED <<flowContent, flowItems>>
    [] flowPc = "rank" ->
         /\ FlowEnter("report", {1})
         /\ UNCHANGED <<flowRound, flowContent, flowItems>>
    [] flowPc \in {"report", "partial"} ->
         /\ flowPc' = "returned"
         /\ flowLeft' = 0
         /\ UNCHANGED <<flowRound, flowContent, flowItems>>

\* lines 95-130: the body of the round loop is entered; round 0 searches the
\* initial queries, or leaves the loop when there is none; a later round
\* evaluates first
FlowRoundHead ==
  /\ flowPc = "round"
  /\ flowIterations' = flowIterations + 1
  /\ IF flowRound = 0
       THEN \/ FlowEnter("search", 1..MaxStepCalls)
            \/ FlowEnter("rank", {1})
       ELSE flowPc' = "evaluate" /\ flowLeft' = 1
  /\ UNCHANGED <<flowDepth, flowAllowPartial, flowRound, flowContent, flowItems, flowCalling,
                 searchConfig>>
  /\ UNCHANGED <<vars, clientVars, limiterVars, storeVars, queryVars, execVars, modelVars,
                 scoreVars, searchVars>>

FlowAtCall ==
  /\ flowPc \in {"plan", "evaluate", "search", "scrape", "summarize", "rank", "report",
                 "partial"}
  /\ ~flowCalling

\* generateWithCache, lines 462-465: the answer of an LLM step is in the cache
FlowCacheHit ==
  /\ FlowAtCall
  /\ ClientOfStep(flowPc) = "llm"
  /\ flowLeft > 0
  /\ flowLeft' = flowLeft - 1
  /\ UNCHANGED <<flowPc, flowDepth, flowAllowPartial, flowRound, flowIterations, flowContent,
                 flowItems, flowCalling, searchConfig>>
  /\ UNCHANGED <<vars, clientVars, limiterVars, storeVars, queryVars, execVars, modelVars,
                 scoreVars, searchVars>>

\* the step has no call left to make
FlowStepDone ==
  /\ FlowAtCall
  /\ flowLeft = 0
  /\ FlowGoOn
  /\ UNCHANGED <<flowDepth, flowAllowPartial, flowIterations, flowCalling, searchConfig>>
  /\ UNCHANGED <<vars, clientVars, limiterVars, storeVars, queryVars, execVars, modelVars,
                 scoreVars, searchVars>>

\* the step calls its client: generate, search or executeScrape begins
FlowCall ==
  /\ FlowAtCall
  /\ flowLeft > 0
  /\ flowCalling' = TRUE
  /\ client' = ClientOfStep(flowPc)
  /\ instanceCount' = (IF flowPc = "search" THEN searchConfig.instances ELSE 1)
  /\ maxRetries' = (IF flowPc = "search" THEN searchConfig.maxRetries ELSE DefaultMaxRetries)
  /\ script' \in RemoteScripts
  /\ callPc' = (IF flowPc = "search" THEN "instance" ELSE "try")
  /\ UNCHANGED <<priorityOrder, currentInstanceIndex, callCount, callQuery, exchanges,
                 instanceAttempt, instanceUrl, retry, totalRetryCount, lastError, sleeps,
                 callResult, callThrown>>
  /\ UNCHANGED <<flowPc, flowDepth, flowAllowPartial, flowRound, flowIterations, flowContent,
                 flowItems, flowLeft, searchConfig>>
  /\ UNCHANGED <<vars, limiterVars, storeVars, queryVars, execVars, modelVars, scoreVars,
                 searchVars>>

\* the call has settled: the step counts it, or its error reaches the catch
\* block (scrapeMany and the report attempt of the catch block catch theirs)
FlowSettle ==
  /\ flowCalling
  /\ callPc \in {"returned", "thrown"}
  /\ flowCalling' = FALSE
  /\ IF callPc = "thrown" /\ flowPc \notin {"scrape", "partial"}
       THEN /\ FlowCatch
            /\ UNCHANGED <<flowRound, flowContent, flowItems>>
       ELSE /\ flowLeft' = flowLeft - 1
            /\ UNCHANGED <<flowPc, flowRound, flowContent, flowItems>>
  /\ client' = "llm"
  /\ instanceCount' = 1
  /\ maxRetries' = DefaultMaxRetries
  /\ callPc' = "idle"
  /\ script' = <<>>
  /\ exchanges' = <<>>
  /\ instanceAttempt' = 0
  /\ instanceUrl' = 0
  /\ retry' = 0
  /\ totalRetryCount' = 0
  /\ lastError' = <<>>
  /\ sleeps' = <<>>
  /\ callResult' = <<>>
  /\ callThrown' = <<>>
  /\ UNCHANGED <<priorityOrder, currentInstanceIndex, callCount, callQuery>>
  /\ UNCHANGED <<flowDepth, flowAllowPartial, flowIterations, searchConfig>>
  /\ UNCHANGED <<vars, limiterVars, storeVars, queryVars, execVars, modelVars, scoreVars,
                 searchVars>>

\* the steps of a call under way: those of execute and those of the client
\* call it awaits
FlowSteps ==
  \/ FlowRoundHead
  \/ FlowCacheHit
  \/ FlowStepDone
  \/ FlowCall
  \/ FlowSettle
  \/ SearchInstance
  \/ SearchTry
  \/ LlmTry
  \/ ScrapeTry
  \/ ClientWake

FlowNext ==
  \/ FlowExecute
  \/ FlowSteps

FlowSpec == FlowInit /\ [][FlowNext]_allVars

\* every client call settles and the continuation of every await runs
FlowFairSpec == FlowSpec /\ WF_allVars(FlowSteps)


\* ===================================================================== claims

\* the (1-based) scrape step that returned allScrapedContent[k]
RECURSIVE StepOfItem(_, _)
StepOfItem(k, lens) ==
  IF lens = <<>> THEN 0
  ELSE IF k <= Head(lens) THEN 1
  ELSE 1 + StepOfItem(k - Head(lens), Tail(lens))

StepOf(k) == StepOfItem(k, roundLens)

\* C1: for every depth tier the round counter, and the rounds a result
\* reports, never exceed the tier's maxRounds, and the queries of round 0
\* (the initial queries, the queries searched and recorded in round 0) never
\* number more than the tier's initialQueries.max.
C1_RoundAndQueryCaps ==
  /\ currentRound <= depthConfig.maxRounds
  /\ Len(initialQueries) <= depthConfig.initialQueries.max
  /\ currentRound <= 1 =>
       /\ Len(queries) <= depthConfig.initialQueries.max
       /\ Len(executedQueries) <= depthConfig.initialQueries.max
  /\ result # <<>> => result[1].rounds <= depthConfig.maxRounds

\* a deep call that ran all three rounds after the planner offered more valid
\* candidates than the tier keeps
C1_Witness ==
  /\ pc = "returned"
  /\ depth = "deep"
  /\ result[1].rounds = 3
  /\ validCount > depthConfig.initialQueries.max
  /\ Len(initialQueries) = depthConfig.initialQueries.max
  /\ Len(executedQueries) >= depthConfig.initialQueries.max

\* C2: within one call an item is flagged duplicate exactly when its URL was
\* among the results of an earlier scrape step of the call; no scrape step
\* returns two items of one URL.
C2_DuplicateIffSeenEarlier ==
  \A k \in DOMAIN allScrapedContent :
    /\ allScrapedContent[k].duplicate =
         (\E j \in DOMAIN allScrapedContent :
            /\ StepOf(j) < StepOf(k)
            /\ allScrapedContent[j].url = allScrapedContent[k].url)
    /\ \A j \in DOMAIN allScrapedContent :
         (j # k /\ StepOf(j) = StepOf(k)) =>
           allScrapedContent[j].url # allScrapedContent[k].url

\* a URL whose first scrape fell back to the placeholder comes back in a
\* later round and is flagged
C2_Witness ==
  \E j, k \in DOMAIN allScrapedContent :
    /\ StepOf(j) < StepOf(k)
    /\ allScrapedContent[j].url = allScrapedContent[k].url
    /\ allScrapedContent[j].content = PLACEHOLDER
    /\ ~allScrapedContent[j].cached
    /\ ~allScrapedContent[j].duplicate
    /\ allScrapedContent[k].duplicate

\* C3: the accumulated item list holds at most one item per URL.
C3_OneItemPerUrl ==
  \A j, k \in DOMAIN allScrapedContent :
    j # k => allScrapedContent[j].url # allScrapedContent[k].url

\* C4: once a cancellation poll has found the signal set, the call starts no
\* external call and returns no result; it ends by throwing the cancellation
\* error.
C4_CancellationRaises ==
  cancelSeen =>
    /\ started = {}
    /\ result = <<>>
    /\ pc \in {"returned", "thrown"} => thrown = <<CancelError>>

\* C5: when a step fails with an item accumulated and partial results
\* allowed, execute does not throw, and the result it returns is flagged
\* partial, carries the error's message and the number of accumulated items,
\* and has a non-empty report.
C5_PartialResult ==
  (caught # <<>> /\ allowPartialResults /\ Len(allScrapedContent) > 0) =>
    /\ thrown = <<>>
    /\ pc # "thrown"
    /\ pc = "returned" =>
         /\ result[1].partial
         /\ result[1].error = caught[1].message
         /\ result[1].sourcesScraped = Len(allScrapedContent)
         /\ ~result[1].report.empty

\* C6: when a step fails with no item accumulated, or with partial results
\* disallowed, execute throws that same error, makes no report attempt and
\* returns no result.
C6_Rethrows ==
  (caught # <<>> /\ (Len(allScrapedContent) = 0 \/ ~allowPartialResults)) =>
    /\ pc = "thrown"
    /\ thrown = caught
    /\ result = <<>>
    /\ reportAttempts = 0

\* the summarizer's LLM call fails after items were scraped, with partial
\* results disallowed
C6_Witness ==
  /\ pc = "thrown"
  /\ ~allowPartialResults
  /\ Len(allScrapedContent) > 0
  /\ thrown = <<LLMError>>
  /\ started = {"llm"}

\* C7: the catch block attempts the report at most once; when the attempt
\* throws, the call has returned with the plain listing of the accumulated
\* sources (the first ten, and their number) as its report.
C7_OneAttemptThenListing ==
  /\ reportAttempts <= 1
  /\ (pc = "returned" /\ result[1].partial) => reportAttempts = 1
  /\ reportError # <<>> =>
       /\ pc = "returned"
       /\ reportAttempts = 1
       /\ result[1].report.src = "basic"
       /\ ~result[1].report.empty
       /\ result[1].report.count = Len(allScrapedContent)
       /\ result[1].report.sources =
            [k \in 1..Min(10, Len(allScrapedContent)) |-> allScrapedContent[k].url]

\* the report attempt of the catch block failed as well
C7_Witness ==
  /\ reportError # <<>>
  /\ pc = "returned"
  /\ Len(allScrapedContent) = 2
  /\ caught = <<LLMError>>

\* C8: after an evaluation response that does not parse, the loop has been
\* left through the evaluation, no search, scrape or summarize step follows,
\* and the step itself raised nothing: the rank step is next.
C8_UnparsedEvaluationEndsLoop ==
  evalParsed = "no" =>
    /\ loopExit = "evaluation"
    /\ queries = <<>>
    /\ pc \in {"rank", "report", "partial", "returned", "thrown"}
    /\ pc = "rank" => caught = <<>>
    /\ caught # <<>> => caught[1] \in {CancelError, LLMError}

\* a call whose evaluation did not parse went on to rank and report and
\* returned a complete result
C8_Witness ==
  /\ evalParsed = "no"
  /\ pc = "returned"
  /\ ~result[1].partial
  /\ result[1].rounds = 2
  /\ depth = "deep"

\* C9 as stated: the loop is left without error before maxRounds rounds were
\* run only by an evaluation of a round > 0.
C9_OnlyEvaluationEndsEarly ==
  (loopExit # "none" /\ round < depthConfig.maxRounds) =>
    (loopExit = "evaluation" /\ round > 0)

\* C9 amended: the loop is left without error before maxRounds rounds were
\* run only by an evaluation of a round > 0 that reports the goal met or has
\* no follow-up query, or in round 0 when no initial query is left.
C9_EarlyExits ==
  (loopExit # "none" /\ round < depthConfig.maxRounds) =>
    \/ loopExit = "evaluation" /\ round > 0
    \/ loopExit = "no_queries" /\ round = 0 /\ initialQueries = <<>>

\* a deep call left the loop in round 0 for want of a valid query and returned
C9_Witness ==
  /\ loopExit = "no_queries"
  /\ depth = "deep"
  /\ round = 0
  /\ pc = "returned"
  /\ executedQueries = <<>>

\* the fallback content of a search result
FallbackOf(r) == IF r.snippet # "" THEN r.snippet ELSE PLACEHOLDER

\* C10: scrapeMany answers with one item per input, in input order; the item
\* of a URL whose scrape failed has the snippet (or the placeholder) as
\* content and cached = false, and the item the scrape step returns for it
\* has a non-zero quality score, the score of that fallback text; the step
\* itself goes on to summarizing.
C10_ScrapeFallback ==
  /\ Len(freshlyScraped) = Len(uncachedResults)
  /\ \A i \in DOMAIN uncachedResults :
       /\ freshlyScraped[i].url = uncachedResults[i].url
       /\ freshlyScraped[i].title = uncachedResults[i].title
       /\ uncachedResults[i].url \in scrapeFailures =>
            /\ freshlyScraped[i].content = FallbackOf(uncachedResults[i])
            /\ ~freshlyScraped[i].cached
            /\ \E k \in DOMAIN RoundItems :
                 /\ RoundItems[k].url = uncachedResults[i].url
                 /\ RoundItems[k].content = FallbackOf(uncachedResults[i])
                 /\ ~RoundItems[k].cached
                 /\ RoundItems[k].qualityScore > 0
                 /\ RoundItems[k].qualityScore =
                      scoreContent(uncachedResults[i].title, uncachedResults[i].url,
                                   FallbackOf(uncachedResults[i]))
  /\ (scrapeFailures # {} /\ caught # <<>>) => pc # "scrape"

\* two URLs were scraped in one step; the first, which has no snippet, failed
\* and got the placeholder, the second succeeded
C10_Witness ==
  /\ pc = "summarize"
  /\ Len(uncachedResults) = 2
  /\ scrapeFailures = {uncachedResults[1].url}
  /\ uncachedResults[1].snippet = ""
  /\ freshlyScraped[1].content = PLACEHOLDER
  /\ freshlyScraped[2].content = PageOf(uncachedResults[2].url)

\* ------------------------------------------------------ claims on the clients
\* the exchanges of the call that failed
FailedExchanges == {i \in 1..Len(exchanges) : ~Succeeds(exchanges[i].answer)}

\* the status an exchange was answered with (0 when there was no response)
StatusOf(i) == AnswerTable[exchanges[i].answer].status

\* C11: on each of the three clients with maxRetries 3 (search with one
\* instance), a remote that answers 503 twice and then succeeds makes the call
\* return the successful response after exactly three attempts and exactly two
\* retries: the call does not fail, it is still going on after the first and
\* the second attempt, and the third ends it with the successful response.
C11_TwoFailuresThenSuccess ==
  (/\ script = <<"503", "503", "200 ok">>
   /\ maxRetries = DefaultMaxRetries
   /\ instanceCount = 1)
  => /\ callPc # "thrown"
     /\ Len(exchanges) <= 3
     /\ Len(exchanges) = 3 => callPc = "returned"
     /\ callPc = "returned" =>
          /\ callResult = <<"200 ok">>
          /\ Len(exchanges) = 3
          /\ Len(sleeps) = 2
          /\ Cardinality(FailedExchanges) = 2

\* a search on one instance has returned the answer of its third attempt
C11_Witness ==
  /\ client = "search"
  /\ instanceCount = 1
  /\ maxRetries = DefaultMaxRetries
  /\ script = <<"503", "503", "200 ok">>
  /\ callPc = "returned"
  /\ Len(exchanges) = 3

\* C12 (as claimed): on each of the three clients, search with any number of
\* instances, a remote that always answers 404 is contacted exactly once per
\* call: no second attempt and no sleep is made, and the call that has failed
\* has made one attempt.
C12_OneAttemptOn404 ==
  script = <<"404">> /\ maxRetries >= 1 =>
    /\ Len(exchanges) <= 1
    /\ Len(sleeps) = 0
    /\ callPc # "returned"
    /\ callPc = "thrown" => Len(exchanges) = 1

\* C12 (amended): a 404 is never retried and never slept on.  generate and
\* executeScrape fail after exactly one attempt; search makes one attempt for
\* each instance selection, instances.length in all when maxRetries >= 1, and
\* then fails with the search failure.
C12_NoRetryOn404 ==
  script = <<"404">> =>
    /\ Len(sleeps) = 0
    /\ callPc # "returned"
    /\ \A i \in 1..Len(exchanges) :
         /\ exchanges[i].retry = 0
         /\ exchanges[i].selection = i - 1
    /\ callPc = "thrown" =>
         Len(exchanges) = (IF client # "search" THEN 1
                           ELSE IF maxRetries >= 1 THEN instanceCount ELSE 0)
    /\ client # "search" /\ Len(exchanges) = 1 => callPc = "thrown"
    /\ callPc = "thrown" /\ client = "search" => callThrown[1].code = "SEARCH_ERROR"

\* a search over two instances has failed after one 404 from each selection
C12_Witness ==
  /\ client = "search"
  /\ instanceCount = 2
  /\ script = <<"404">>
  /\ callPc = "thrown"
  /\ Len(exchanges) = 2

\* C13 (as claimed): in search, the attempt after a response with status >= 500
\* is never made within the same pass of the instance loop.
C13_ServerErrorLeavesInstance ==
  client = "search" =>
    \A i \in 1..(Len(exchanges) - 1) :
      StatusOf(i) >= 500 => exchanges[i + 1].selection # exchanges[i].selection

\* C13 (amended): in search, a response with status >= 500 is retried on the
\* same instance while that instance has retries left; only after the last
\* retry does the next attempt go to the next instance selection.
C13_ServerErrorRetriedFirst ==
  client = "search" =>
    \A i \in 1..(Len(exchanges) - 1) :
      StatusOf(i) >= 500 =>
        IF exchanges[i].retry < maxRetries - 1
          THEN /\ exchanges[i + 1].selection = exchanges[i].selection
               /\ exchanges[i + 1].instance = exchanges[i].instance
               /\ exchanges[i + 1].retry = exchanges[i].retry + 1
          ELSE /\ exchanges[i + 1].selection = exchanges[i].selection + 1
               /\ exchanges[i + 1].retry = 0

\* search has retried the instance that answered 503 and, after its last
\* retry, gone on to the next selection
C13_Witness ==
  /\ client = "search"
  /\ maxRetries = DefaultMaxRetries
  /\ Len(exchanges) >= 4
  /\ \A i \in 1..3 : exchanges[i].answer = "503" /\ exchanges[i].selection = 0
  /\ exchanges[4].selection = 1

\* C14: a search call that has ended has either returned the results of a
\* successful exchange or thrown the search failure (code SEARCH_ERROR) with
\* the query and the number of failed attempts; it makes at most
\* instances.length x maxRetries attempts and never returns without a
\* successful exchange.
C14_ReturnsOrRaises ==
  client = "search" =>
    /\ Len(exchanges) <= instanceCount * maxRetries
    /\ callPc = "returned" =>
         /\ callThrown = <<>>
         /\ callResult = <<exchanges[Len(exchanges)].answer>>
         /\ Succeeds(callResult[1])
    /\ callPc = "thrown" =>
         /\ callResult = <<>>
         /\ Len(callThrown) = 1
         /\ callThrown[1].code = "SEARCH_ERROR"
         /\ callThrown[1].details.query = callQuery
         /\ callThrown[1].details.totalRetries = Cardinality(FailedExchanges)
         /\ FailedExchanges = 1..Len(exchanges)
    /\ callPc \notin {"returned", "thrown"} => callResult = <<>> /\ callThrown = <<>>

\* a search over two instances has failed after three attempts on each
C14_Witness ==
  /\ client = "search"
  /\ instanceCount = 2
  /\ maxRetries = 3
  /\ callPc = "thrown"
  /\ Len(exchanges) = 6
  /\ callThrown[1].details.totalRetries = 6

\* C15: with priorityOrder enabled, the k-th instance selection of every
\* search call goes to the k-th configured instance, so every call begins
\* with the first configured instance.
C15_PriorityOrderFromFirst ==
  client = "search" /\ priorityOrder =>
    \A i \in 1..Len(exchanges) : exchanges[i].instance = exchanges[i].selection

\* the retry-after durations of the model's answers, in ms
RetryAfterMs(header) == IF header = "2" THEN 2000 ELSE NaN

BaseDelayOf(c) ==
  CASE c = "llm" -> LlmBaseDelay
    [] c = "scrape" -> ScrapeBaseDelay
    [] c = "search" -> SearchBaseDelay

\* C16 (as claimed): the sleep before the n-th retry (0-indexed) of a call
\* lasts baseDelay x 2^n, unless the failed response carried a retry-after
\* duration, which is then the delay.  (Stated for responses without the header
\* or with one in whole seconds.)
C16_BackoffOrRetryAfter ==
  \A n \in 1..Len(sleeps) :
    LET error == AnswerTable[sleeps[n].after]
    IN  IF error.retryAfter = ""
          THEN sleeps[n].ms = BaseDelayOf(client) * Pow2(n - 1)
          ELSE RetryAfterMs(error.retryAfter) # NaN
                 => sleeps[n].ms = RetryAfterMs(error.retryAfter)

\* C16 (amended): for generate and executeScrape the sleep before retry n
\* lasts baseDelay x 2^n, except after a 429 response with a retry-after header
\* in whole seconds, which is then the delay; the header is ignored on any
\* other status.  For search the sleep always lasts 500 x 2^n ms, n being the
\* retry index on the current instance.
C16_BackoffAndRetryAfterOn429 ==
  \A n \in 1..Len(sleeps) :
    LET error == AnswerTable[sleeps[n].after]
        backoff == BaseDelayOf(client) * Pow2(sleeps[n].retry)
    IN  /\ client = "search" => sleeps[n].ms = backoff
        /\ client # "search" =>
             /\ sleeps[n].retry = n - 1
             /\ IF error.status = 429 /\ error.retryAfter # ""
                  THEN RetryAfterMs(error.retryAfter) # NaN
                         => sleeps[n].ms = RetryAfterMs(error.retryAfter)
                  ELSE sleeps[n].ms = backoff

\* generate has slept the two seconds a 429 response asked for
C16_Witness ==
  /\ client = "llm"
  /\ Len(sleeps) = 1
  /\ sleeps[1].after = "429 retry-after: 2"
  /\ sleeps[1].ms = 2000
  /\ callPc = "returned"

\* ------------------------------------------------- claims on the RateLimiter
\* C17: the number of units started and not yet completed never exceeds
\* maxConcurrent.
C17_AtMostMaxConcurrent == Cardinality(running) <= maxConcurrent

\* C18: any two units are started at least minInterval apart.
C18_AdmissionsSpaced == closest >= MinInterval

\* C19: every unit passed to add is started exactly once and its promise is
\* settled exactly once, with the outcome of that unit's own fn(); a unit that
\* fails gives its slot back; and every unit passed to add is eventually
\* settled, so none stays queued forever.
C19_EveryUnitSettlesOnce ==
  /\ [](\A u \in Units :
          /\ startCount[u] <= 1
          /\ Len(settled[u]) <= 1
          /\ u > added => startCount[u] = 0 /\ settled[u] = <<>>
          /\ settled[u] # <<>> =>
               /\ startCount[u] = 1
               /\ u \notin running
               /\ outcomes[u] # <<>>
               /\ settled[u][1] = (IF outcomes[u][1] THEN "resolved" ELSE "rejected"))
  /\ [](processing = Cardinality(running))
  /\ \A u \in Units : (u <= added) ~> (Len(settled[u]) = 1 /\ u \notin Range(queue))

\* behind a unit that failed on a limiter of one slot, the units queued after
\* it have all been run
C19_Witness ==
  /\ maxConcurrent = 1
  /\ added = MaxUnits
  /\ settled[1] = <<"rejected">>
  /\ \A u \in Units : Len(settled[u]) = 1
  /\ queue = <<>>

\* ------------------------------------------------------- claims on the Cache
\* the row a key of a partition has in its table
RowOf(partition, key) ==
  IF partition = "url" THEN search_cache[key[1]]
                       ELSE llm_cache[hashPrompt(key[1], key[2])]

\* C20: on an enabled cache (enabled, with its database open), a read of the
\* key of the latest write returns exactly the written value when no more than
\* the TTL has passed since the write; when more has passed, it returns
\* not-found and leaves no row for the key.  Both in the URL partition and in
\* the LLM partition.
C20_RoundTripWithinTtl ==
  (/\ CacheOn
   /\ lastRead # <<>>
   /\ lastWrite # <<>>
   /\ lastRead[1].partition = lastWrite[1].partition
   /\ lastRead[1].key = lastWrite[1].key)
  => IF lastRead[1].at - lastWrite[1].at <= CacheDuration
       THEN lastRead[1].answer = <<lastWrite[1].value>>
       ELSE /\ lastRead[1].answer = <<>>
            /\ RowOf(lastRead[1].partition, lastRead[1].key) = <<>>

\* getCachedLLM has found the row of the latest write stale and removed it
C20_Witness ==
  /\ CacheOn
  /\ lastRead # <<>>
  /\ lastWrite # <<>>
  /\ lastRead[1].partition = "llm"
  /\ lastRead[1].key = lastWrite[1].key
  /\ lastRead[1].at - lastWrite[1].at > CacheDuration
  /\ lastRead[1].found # <<>>
  /\ lastRead[1].answer = <<>>
  /\ RowOf("llm", lastRead[1].key) = <<>>

\* C21: an operation of the Cache (get, set, has, clear, cacheLLM,
\* getCachedLLM) that finds the cache disabled, closed or failed to initialise
\* (the guard is off), or in which the storage layer throws, does not raise to
\* its caller: a read answers not-found and a write leaves the tables as they
\* were.
C21_NoOperationRaises ==
  lastOp # <<>> =>
    /\ ~lastOp[1].raised
    /\ lastOp[1].answer = <<>>
    /\ lastOp[1].op # "clear" => ~lastOp[1].wrote

\* the storage layer threw inside clear and the caller saw no exception
C21_Witness ==
  /\ lastOp # <<>>
  /\ lastOp[1].op = "clear"
  /\ lastOp[1].fault
  /\ ~lastOp[1].raised

\* ------------------------------------------- claims on the initial queries
\* the rules of rejection as they are stated: trimmed length below 3 or above
\* 200, no alphanumeric character, more than 3 words with a ratio of unique
\* words below 0.4, a single broad question word
StatedRejection(query) ==
  \/ TrimmedLength(query) < 3
  \/ TrimmedLength(query) > 200
  \/ OnlySpecialCharacters(query)
  \/ Len(query) > 3 /\ 10 * Cardinality(Range(query)) < 4 * Len(query)
  \/ Len(query) <= 1 /\ (\E i \in DOMAIN query : query[i] \in broadTerms)

\* C22: validateQuery rejects exactly the queries that match one of the stated
\* rules and accepts every other query.
C22_RejectsExactlyStatedRules ==
  \A i \in DOMAIN verdicts : verdicts[i] = ~StatedRejection(planned[i])

\* C23: a query of two words, one of them a broad question word, that the
\* length, character and repetition rules do not reject passes validateQuery.
C23_TwoWordBroadQueryPasses ==
  \A i \in DOMAIN verdicts :
    (/\ Len(planned[i]) = 2
     /\ \E j \in 1..2 : planned[i][j] \in broadTerms
     /\ TrimmedLength(planned[i]) >= 3
     /\ TrimmedLength(planned[i]) <= 200
     /\ ~OnlySpecialCharacters(planned[i]))
    => verdicts[i]

\* the candidates that pass validateQuery, as positions of the planner's list
ValidPositions == {i \in DOMAIN planned : validateQuery(planned[i])}

\* the position of the j-th candidate that passes
NthValid(j) ==
  CHOOSE i \in ValidPositions : Cardinality({h \in ValidPositions : h <= i}) = j

\* C24: the initial queries are the candidates that pass validateQuery, in
\* the planner's order, cut to the first initialQueries.max: of k valid
\* candidates min(k, max) are kept, and no invalid candidate is kept.
C24_ValidCandidatesInOrderCapped ==
  planPc = "sliced" =>
    /\ Len(planInitial) =
         Min(Cardinality(ValidPositions), DEPTH_CONFIGS[planDepth].initialQueries.max)
    /\ \A j \in DOMAIN planInitial :
         /\ validateQuery(planInitial[j])
         /\ planInitial[j] = planned[NthValid(j)]

\* four candidates, the second invalid, at depth shallow: the three valid
\* ones are kept in order; and five valid candidates were cut to three
C24_Witness ==
  /\ planPc = "sliced"
  /\ planDepth = "shallow"
  /\ Len(planned) = 5
  /\ ~validateQuery(planned[2])
  /\ Cardinality(ValidPositions) = 4
  /\ planInitial = <<planned[1], planned[3], planned[4]>>
  /\ planned[3] # planned[4]

\* ------------------------- claims on execute calls on one Pipeline instance
\* the breakdown a call gets when no other call touches its ledger: its own
\* entries, or undefined when it tracks no cost or logged nothing
AloneCosts(c) ==
  IF costTracking[c] /\ generated[c] > 0
    THEN [defined |-> TRUE, own |-> generated[c], foreign |-> 0]
    ELSE [defined |-> FALSE, own |-> 0, foreign |-> 0]

\* C25: of execute calls that overlap on one Pipeline instance, none has its
\* seen-URL set or its ledger read, cleared or written by another: the
\* duplicate flags and the cost breakdown of each call are those it gets when
\* it runs alone, and its seen-URL set never shrinks while it runs.
C25_OverlappingCallsIsolated ==
  \A c \in Executes :
    /\ ~misflagged[c]
    /\ ~shrunk[c]
    /\ costs[c] # <<>> => costs[c][1] = AloneCosts(c)

\* C26: an execute call that runs while no other call of the instance runs
\* starts with an empty seen-URL set and an empty ledger: none of its items is
\* flagged duplicate because of an earlier call, and its cost breakdown holds
\* the usage entries it logged itself and no other.
C26_SequentialCallsStartEmpty ==
  \A c \in Executes :
    ~overlapped[c] =>
      /\ ~misflagged[c]
      /\ costs[c] # <<>> => costs[c][1] = AloneCosts(c)

\* the second call ran after the first had returned, scraped a URL the first
\* had scraped, and both tracked their cost
C26_Witness ==
  /\ execPc[1] = "done"
  /\ execPc[2] = "done"
  /\ ~overlapped[2]
  /\ ownUrls[1] \cap ownUrls[2] # {}
  /\ costs[1][1].defined
  /\ costs[2][1].defined
  /\ costs[2][1].foreign = 0
  /\ ~misflagged[2]

\* ------------------------------------------------ claims on the progress sink
\* C27: within one execute call the percentages passed to the progress sink
\* never decrease, at every depth and on every path through the round loop,
\* and none is above 100.
C27_ProgressNeverDecreases ==
  /\ \A i, j \in DOMAIN progressLog : i < j => progressLog[i] <= progressLog[j]
  /\ \A i \in DOMAIN progressLog : progressLog[i] <= 100

\* C28: a progress sink that throws does not change the outcome of execute:
\* the call neither raises the sink's exception nor returns a partial result
\* that carries it.
C28_ThrowingSinkChangesNothing ==
  /\ thrown # <<SinkError>>
  /\ result # <<>> => ~(result[1].partial /\ result[1].error = PartialErrorOf(SinkError))

\* --------------------------------------------------- claims on the ranking
\* C29: when the ranking response cannot be parsed, the list handed to the
\* Report step is the accumulated item list in its existing order, and the
\* quality scores of that list never increase from one item to the next.
C29_FallbackListSortedByQuality ==
  rankParsed = "no" =>
    /\ rankedContent = allScrapedContent
    /\ \A i, j \in DOMAIN rankedContent :
         i < j => rankedContent[i].qualityScore >= rankedContent[j].qualityScore

\* ------------------------------------------------ claims on model selection
\* the tier of an agent: its entry in tiers, else its default tier
TierOfAgent == IF Truthy(modelConfig.tiers[agentType]) THEN modelConfig.tiers[agentType]
               ELSE DEFAULT_AGENT_TIERS[agentType]

\* C30: the model of an agent step is the model id that customModels names
\* for the agent; without one, the model id that tierModels names for the
\* agent's tier; without one, the default model of the agent's tier.  It is
\* always a defined model id.
C30_ThreeLevelPrecedence ==
  chosenModel # <<>> =>
    /\ Truthy(chosenModel[1])
    /\ Truthy(modelConfig.customModels[agentType])
         => chosenModel[1] = modelConfig.customModels[agentType]
    /\ (~Truthy(modelConfig.customModels[agentType])
        /\ Truthy(modelConfig.tierModels[TierOfAgent]))
         => chosenModel[1] = modelConfig.tierModels[TierOfAgent]
    /\ (~Truthy(modelConfig.customModels[agentType])
        /\ ~Truthy(modelConfig.tierModels[TierOfAgent]))
         => chosenModel[1] = DEFAULT_MODELS[TierOfAgent]

\* the agent has a model id of its own and its tier has an override: the
\* agent's id was chosen
C30_Witness ==
  /\ chosenModel # <<>>
  /\ agentType = "reporter"
  /\ modelConfig.customModels[agentType] = "openai/gpt-4o-mini"
  /\ modelConfig.tiers[agentType] = "small"
  /\ modelConfig.tierModels["small"] = "qwen/qwen-2.5-72b-instruct"
  /\ chosenModel[1] = "openai/gpt-4o-mini"


\* ------------------------------------------------- claims on the cost ledger
\* what a ledger created with tracking disabled shows
DisabledLedgerIsEmpty ==
  ~thisCostEstimator.enabled =>
    /\ thisCostEstimator.usageLog = <<>>
    /\ getBreakdown(thisCostEstimator) = NoBreakdown
    /\ getTotalCost(thisCostEstimator) = 0
    /\ getTotalTokens(thisCostEstimator) = 0

\* an execute call that returns while the ledger is a disabled one
ReturnsFromDisabledLedger(c) ==
  /\ execPc[c] = "running"
  /\ execPc'[c] = "done"
  /\ ~thisCostEstimator.enabled

\* C31: a ledger created with tracking disabled is a no-op sink: whatever
\* usage has been logged on it, it stores no entry, getBreakdown is undefined,
\* the total cost and the total tokens are 0, and an execute call that returns
\* from it has no metadata.costs.
C31_DisabledLedgerIsNoOp ==
  /\ []DisabledLedgerIsEmpty
  /\ [][\A c \in Executes :
          ReturnsFromDisabledLedger(c) => ~costs'[c][1].defined]_allVars

\* a call with tracking disabled logged usage of an llm.generate and returned
\* without costs
C31_Witness ==
  \E c \in Executes :
    /\ execPc[c] = "done"
    /\ ~costTracking[c]
    /\ ~overlapped[c]
    /\ generated[c] > 0
    /\ ~thisCostEstimator.enabled
    /\ ~costs[c][1].defined


\* ------------------------------------------------- claims on the quality score
\* the weighted sum in hundredths when every sub-score, hasTitle included, is
\* on the 0-100 scale, rounded to the nearest integer
FullScaleScore(title, url, content) ==
  LET hasTitle == IF title # "" THEN 100 ELSE 0
      score100 == scoreContentLength(content) * 35 + hasTitle * 15
                  + scoreDomainReputation(url) * 30 + scoreReadability(content) * 20
  IN  (Min(10000, Max(0, score100)) + 50) \div 100

\* C32: scoreContent returns an integer in [0,100] equal to the rounded
\* weighted sum 0.35*length + 0.15*hasTitle + 0.30*domainReputation +
\* 0.20*readability with every sub-score on the 0-100 scale, so that a
\* non-empty title contributes 15 points and the best input scores 100.
C32_ScoreIsFullScaleWeightedSum ==
  scorePc = "scored" =>
    /\ scoreResult[1] \in 0..100
    /\ scoreResult[1] = FullScaleScore(scoreTitle, scoreUrl, scoreBody)
    /\ (/\ scoreTitle # ""
        /\ scoreContentLength(scoreBody) = 100
        /\ scoreDomainReputation(scoreUrl) = 100
        /\ scoreReadability(scoreBody) = 100) => scoreResult[1] = 100


\* ------------------------------------------------ claims on executeSearches
EventsOf(kind) == SelectSeq(searchLog, LAMBDA e : e.event = kind)

\* the queries sent so far are the first queries of the round, in order
SentInOrder ==
  /\ Len(EventsOf("search")) <= Len(searchQueries)
  /\ \A k \in DOMAIN EventsOf("search") : EventsOf("search")[k].query = searchQueries[k]

\* every search but the first directly follows a delay, every delay directly
\* follows a return, and nothing but a search follows a delay
DelaysSeparateSearches ==
  \A k \in DOMAIN searchLog :
    /\ (searchLog[k].event = "search" /\ k > 1) => searchLog[k - 1].event = "delay"
    /\ searchLog[k].event = "delay" =>
         /\ k > 1
         /\ searchLog[k - 1].event = "returned"
         /\ searchLog[k].ms = SearchPacingDelay
         /\ k < Len(searchLog) => searchLog[k + 1].event = "search"

\* C33: at most one search call is in flight at any time: the queries of a
\* round are sent one after another in order, a pacing delay separates each
\* consecutive pair of searches and none follows the last, and the call
\* returns to the scrape only after the round's last search has returned.
C33_SearchesOneAtATimePaced ==
  /\ Cardinality(inFlight) <= 1
  /\ SentInOrder
  /\ DelaysSeparateSearches
  /\ searchPc = "sleep" => Len(EventsOf("returned")) < Len(searchQueries)
  /\ searchPc \in {"merge", "returned"} =>
       /\ inFlight = {}
       /\ Len(EventsOf("returned")) = Len(searchQueries)
       /\ searchLog[Len(searchLog)].event = "returned"
       /\ Len(EventsOf("delay")) = Len(searchQueries) - 1

\* a round of three queries went through: three searches, two delays
C33_Witness ==
  /\ searchPc = "returned"
  /\ Len(searchQueries) = 3
  /\ Len(EventsOf("search")) = 3
  /\ Len(EventsOf("delay")) = 2


\* ------------------------------------------------ claims on the round loop
\* C34: the queries of every round after the first number at most 3, however
\* many the evaluation proposes, so a call executes at most
\* initialQueries.max + 3 x (maxRounds - 1) queries.
C34_FollowUpsCappedPerRound ==
  /\ (round > 0 /\ pc \in {"search", "scrape", "summarize"}) => Len(queries) <= 3
  /\ Len(executedQueries) <= Len(initialQueries) + (3 * Max(0, currentRound - 1))
  /\ Len(executedQueries) <=
       depthConfig.initialQueries.max + (3 * (depthConfig.maxRounds - 1))

\* a deep call whose evaluations proposed MaxFollowUps queries twice executed
\* three of them each time on top of its seven initial queries
C34_Witness ==
  /\ pc = "returned"
  /\ depth = "deep"
  /\ MaxFollowUps > 3
  /\ Len(executedQueries) = 7 + 3 + 3


\* ------------------------------------------------- claims on the summaries
\* every round that scraped has also summarized
RoundsCompleted == Len(roundLens) = round

\* C35: summaries are only appended: at the end of every completed round the
\* summary list has one summary per accumulated scraped item, in the order of
\* the items, each tagged with its item's title and URL and carrying the
\* parsed summary or, for a response that does not parse, the raw response;
\* and a step never changes a summary already in the list.
C35_SummariesAppendedPerItem ==
  /\ [](RoundsCompleted =>
          /\ Len(allSummaries) = Len(allScrapedContent)
          /\ \A k \in DOMAIN allSummaries :
               /\ allSummaries[k].title = allScrapedContent[k].title
               /\ allSummaries[k].url = allScrapedContent[k].url
               /\ allSummaries[k].body \in {"parsed", "raw"})
  /\ [][pc # "idle" =>
          /\ Len(allSummaries') >= Len(allSummaries)
          /\ SubSeq(allSummaries', 1, Len(allSummaries)) = allSummaries]_vars

\* two rounds were completed, each summarized one item, and the summarizer's
\* response to the first did not parse
C35_Witness ==
  /\ round = 2
  /\ RoundsCompleted
  /\ roundLens = <<1, 1>>
  /\ Len(allSummaries) = 2
  /\ allSummaries[1].body = "raw"


\* ----------------------------------------------- claims on the result metadata
\* C36: metadata.rounds of a returned result is the number of rounds carried
\* out in the call, the number of search-scrape-summarize cycles that were
\* run (round counts the completed ones; a partial result may also count the
\* cycle that was cut short).
C36_RoundsCountsCyclesRun ==
  result # <<>> =>
    IF result[1].partial THEN result[1].rounds \in {round, round + 1}
    ELSE result[1].rounds = round


\* the queries whose search has been started in the call: those of the rounds
\* whose searches all returned (pushed at line 141), then those of the round
\* whose searches run, up to the one that threw or the last one that returned
SentQueries ==
  IF caught = <<SearchError>> THEN executedQueries \o Take(queries, searchIdx + 1)
  ELSE IF pc = "search" THEN executedQueries \o Take(queries, searchIdx)
  ELSE executedQueries

\* C37: metadata.queriesExecuted of every returned result, complete or
\* partial, lists in order exactly the queries that were sent to the search
\* client during the call.
C37_QueriesExecutedListsEverySearch ==
  result # <<>> => result[1].queriesExecuted = SentQueries


\* --------------------------------------------------- claims on the URL cache
\* C39: every entry of the URL cache holds the content the extraction provider
\* returned for that URL: the snippet and the placeholder that stand in for a
\* failed scrape are never written to the cache.
C39_CacheHoldsOnlyProviderContent ==
  \A u \in Urls :
    CacheGet(urlCache, cacheEnabled, u) \in {NoValue, PageOf(u)}


\* ------------------------------------------------ claims on the queries sent
\* C40: every query sent to the search client, in round 0 and in the rounds
\* after it, has passed validateQuery.
C40_EverySearchedQueryIsValid ==
  \A k \in DOMAIN SentQueries : validateQuery(SentQueries[k])


\* ---------------------------------------------------- claims on termination
\* the body of the round loop is entered at most maxRounds times
RoundLoopBounded ==
  /\ flowIterations <= DEPTH_CONFIGS[flowDepth].maxRounds
  /\ flowRound <= DEPTH_CONFIGS[flowDepth].maxRounds

\* a client call of execute makes at most 3 attempts (LLM, scrape) or at most
\* instances.length x maxRetries attempts (search)
RetryLoopsBounded ==
  flowCalling =>
    /\ client \in {"llm", "scrape"} => Len(exchanges) <= 3
    /\ client = "search" =>
         Len(exchanges) <= searchConfig.instances * searchConfig.maxRetries

\* C38: every execute call terminates, by returning a result or by throwing,
\* when every single external call terminates: the round loop runs at most
\* maxRounds times and every retry loop makes a bounded number of attempts, at
\* most 3 for LLM and scrape and at most instances.length x maxRetries for
\* search.
C38_ExecuteTerminates ==
  /\ []RoundLoopBounded
  /\ []RetryLoopsBounded
  /\ FlowRunning ~> (flowPc \in {"returned", "thrown"})

\* a deep call went three times through the round loop, searched, scraped
\* items and returned
C38_Witness ==
  /\ flowPc = "returned"
  /\ flowDepth = "deep"
  /\ flowIterations = 3
  /\ flowRound = 3
  /\ flowContent
  /\ searchConfig.instances * searchConfig.maxRetries > 1

====
